---- MODULE Spec2Model ----
(***************************************************************************)
(* A model of the crypto-flow-scanner core: the ParameterManager override  *)
(* store, the FVG detector and the BacktestEngine.                         *)
(*                                                                         *)
(* Python floats are modelled as exact rationals <<n, d>> (d > 0, lowest   *)
(* terms); the float NaN is <<0, 0>> and +/-inf is <<+/-1, 0>>.            *)
(***************************************************************************)
EXTENDS Integers, Sequences, FiniteSets, TLC

VARIABLES
    overrides,      \* ParameterManager.overrides (nested dict)
    config_file,    \* ParameterManager.config_file and the file at that path
    ret,            \* what the most recent ParameterManager call returned / raised
    df,             \* the candle frame handed to FVGPattern.detect
    patterns,       \* what FVGPattern.detect returned
    pc,             \* position of the running backtest / detect call
    candles,        \* what db_manager.get_candles returned to the backtest
    i,              \* loop index of backtest_fvg_strategy
    capital,        \* BacktestEngine.capital
    trades,         \* BacktestEngine.trades (the ledger)
    active_trades,  \* local list of open trades of the loop
    equity_curve,   \* BacktestEngine.equity_curve
    result,         \* what backtest_fvg_strategy returned / raised
    db_patterns,    \* the rows of the patterns table, in id order
    clock,          \* datetime.utcnow(), in minutes
    called,         \* the most recent call on the stored patterns and its outcome
    db_signals      \* the rows of the signals table, in id order

vars == <<overrides, config_file, ret, df, patterns, pc, candles, i, capital,
          trades, active_trades, equity_curve, result, db_patterns, clock, called,
          db_signals>>

paramVars == <<overrides, config_file, ret>>
detectVars == <<df, patterns>>
storeVars == <<db_patterns, clock, called, db_signals>>
engineVars == <<candles, i, capital, trades, active_trades, equity_curve,
                result>>

-----------------------------------------------------------------------------
(* Floats as rationals *)

RECURSIVE GCD(_, _)
GCD(a, b) == IF b = 0 THEN a ELSE GCD(b, a % b)

AbsInt(n) == IF n < 0 THEN -n ELSE n

NaN == <<0, 0>>
PosInf == <<1, 0>>
NegInf == <<-1, 0>>

IsNaN(x) == x = NaN
IsFinite(x) == x[2] # 0

\* n/d in lowest terms, d # 0
R(n, d) ==
    LET g == GCD(AbsInt(n), AbsInt(d))
        s == IF d < 0 THEN -1 ELSE 1
    IN  <<(s * n) \div g, (s * d) \div g>>

Int2R(n) == <<n, 1>>
Zero == <<0, 1>>

LCM(a, b) == (a \div GCD(a, b)) * b

Sign(x) == IF x[1] > 0 THEN 1 ELSE IF x[1] < 0 THEN -1 ELSE 0

Neg(x) == <<-x[1], x[2]>>

Add(x, y) ==
    IF IsNaN(x) \/ IsNaN(y) THEN NaN
    ELSE IF ~IsFinite(x) THEN (IF ~IsFinite(y) /\ y # x THEN NaN ELSE x)
    ELSE IF ~IsFinite(y) THEN y
    ELSE LET l == LCM(x[2], y[2])
         IN  R(x[1] * (l \div x[2]) + y[1] * (l \div y[2]), l)

Sub(x, y) == Add(x, Neg(y))

Mul(x, y) ==
    IF IsNaN(x) \/ IsNaN(y) THEN NaN
    ELSE IF ~IsFinite(x) \/ ~IsFinite(y)
         THEN (IF Sign(x) * Sign(y) = 0 THEN NaN ELSE <<Sign(x) * Sign(y), 0>>)
    ELSE LET g1 == GCD(AbsInt(x[1]), y[2])
             g2 == GCD(AbsInt(y[1]), x[2])
         IN  R((x[1] \div g1) * (y[1] \div g2), (x[2] \div g2) * (y[2] \div g1))

\* numpy float64 division: x/0 is +/-inf or nan, never an exception
Div(x, y) ==
    IF IsNaN(x) \/ IsNaN(y) THEN NaN
    ELSE IF ~IsFinite(y) THEN (IF IsFinite(x) THEN Zero ELSE NaN)
    ELSE IF y[1] = 0 THEN (IF Sign(x) = 0 THEN NaN ELSE <<Sign(x), 0>>)
    ELSE IF ~IsFinite(x) THEN <<Sign(x) * Sign(y), 0>>
    ELSE Mul(x, R(y[2], y[1]))

\* every comparison with NaN is False
Lt(x, y) ==
    /\ ~IsNaN(x)
    /\ ~IsNaN(y)
    /\ IF ~IsFinite(x) \/ ~IsFinite(y)
       THEN (IF ~IsFinite(x) /\ ~IsFinite(y) THEN x[1] < y[1]
             ELSE IF ~IsFinite(x) THEN x[1] < 0
             ELSE y[1] > 0)
       ELSE LET l == LCM(x[2], y[2])
            IN  x[1] * (l \div x[2]) < y[1] * (l \div y[2])

Gt(x, y) == Lt(y, x)
Le(x, y) == ~IsNaN(x) /\ ~IsNaN(y) /\ (x = y \/ Lt(x, y))
Ge(x, y) == Le(y, x)

AbsR(x) == IF IsNaN(x) THEN NaN ELSE <<AbsInt(x[1]), x[2]>>

\* Python's min(a, b): b if b < a else a
MinR(a, b) == IF Lt(b, a) THEN b ELSE a

\* Python truthiness of a float: False only for 0.0 (NaN is truthy)
Truthy(x) == x # Zero

-----------------------------------------------------------------------------
(* Dict helpers *)

Put(d, k, v) == [x \in (DOMAIN d) \cup {k} |-> IF x = k THEN v ELSE d[x]]
Pop(d, k) == [x \in (DOMAIN d) \ {k} |-> d[x]]
Update(d, u) == [x \in (DOMAIN d) \cup (DOMAIN u) |-> IF x \in DOMAIN u THEN u[x] ELSE d[x]]
EmptyDict == [x \in {} |-> x]

-----------------------------------------------------------------------------
(* src/config/settings.py: defaults *)

MAX_RISK_PERCENT == R(1, 1)
STOP_LOSS_ATR_MULTIPLIER == R(3, 2)
TAKE_PROFIT_RR_RATIO == R(2, 1)
POSITION_SIZE_PERCENT == R(2, 1)
FVG_MIN_GAP_PERCENT == R(1, 10)
FVG_MAX_AGE_CANDLES == 50
FVG_VOLUME_CONFIRMATION == TRUE
BACKTEST_INITIAL_CAPITAL == 10000

-----------------------------------------------------------------------------
(* src/config/parameters.py: ParameterManager *)

\* Python's None (and the empty string, which the code treats alike)
NONE == "<None>"

\* the outcome of a call: a returned value, or a raised exception
Ok(v) == [err |-> "none", none |-> FALSE, value |-> v]
ReturnNone == [err |-> "none", none |-> TRUE, value |-> NONE]
Raise(e) == [err |-> e, none |-> TRUE, value |-> NONE]

RiskFields == {"max_risk_percent", "stop_loss_atr_multiplier",
               "take_profit_rr_ratio", "position_size_percent"}
FVGFields == {"min_gap_percent", "max_age_candles", "volume_confirmation"}

get_default_parameters ==
    [risk |-> [max_risk_percent |-> MAX_RISK_PERCENT,
               stop_loss_atr_multiplier |-> STOP_LOSS_ATR_MULTIPLIER,
               take_profit_rr_ratio |-> TAKE_PROFIT_RR_RATIO,
               position_size_percent |-> POSITION_SIZE_PERCENT],
     fvg |-> [min_gap_percent |-> FVG_MIN_GAP_PERCENT,
              max_age_candles |-> FVG_MAX_AGE_CANDLES,
              volume_confirmation |-> FVG_VOLUME_CONFIRMATION]]

\* dict.update of each group, then the dataclass constructors, which raise
\* TypeError on a keyword they do not declare
_merge_parameters(base, ov) ==
    LET risk_dict == IF "risk" \in DOMAIN ov THEN Update(base.risk, ov.risk)
                     ELSE base.risk
        fvg_dict == IF "fvg" \in DOMAIN ov THEN Update(base.fvg, ov.fvg)
                    ELSE base.fvg
    IN  IF DOMAIN risk_dict = RiskFields /\ DOMAIN fvg_dict = FVGFields
        THEN Ok([risk |-> risk_dict, fvg |-> fvg_dict])
        ELSE Raise("TypeError")

\* a resolution that applies the timeframe-level override last
get_parameters_tf_last(self_overrides, symbol, timeframe) ==
    LET params == Ok(get_default_parameters)
        hasSymbol == /\ symbol # NONE
                     /\ "symbols" \in DOMAIN self_overrides
                     /\ symbol \in DOMAIN self_overrides.symbols
        symbol_config == self_overrides.symbols[symbol]
        p1 == IF hasSymbol /\ "default" \in DOMAIN symbol_config
              THEN _merge_parameters(params.value, symbol_config.default)
              ELSE params
        p2 == IF /\ p1.err = "none"
                 /\ hasSymbol
                 /\ timeframe # NONE
                 /\ "timeframes" \in DOMAIN symbol_config
                 /\ timeframe \in DOMAIN symbol_config.timeframes
              THEN _merge_parameters(p1.value, symbol_config.timeframes[timeframe])
              ELSE p1
        p3 == IF /\ p2.err = "none"
                 /\ timeframe # NONE
                 /\ "timeframes" \in DOMAIN self_overrides
                 /\ timeframe \in DOMAIN self_overrides.timeframes
              THEN _merge_parameters(p2.value, self_overrides.timeframes[timeframe])
              ELSE p2
    IN  p3

get_parameters(self_overrides, symbol, timeframe) ==
    LET params == Ok(get_default_parameters)
        tfLevel == /\ timeframe # NONE
                   /\ "timeframes" \in DOMAIN self_overrides
                   /\ timeframe \in DOMAIN self_overrides.timeframes
        p1 == IF tfLevel
              THEN _merge_parameters(params.value, self_overrides.timeframes[timeframe])
              ELSE params
        hasSymbol == /\ symbol # NONE
                     /\ "symbols" \in DOMAIN self_overrides
                     /\ symbol \in DOMAIN self_overrides.symbols
        symbol_config == self_overrides.symbols[symbol]
        p2 == IF p1.err = "none" /\ hasSymbol /\ "default" \in DOMAIN symbol_config
              THEN _merge_parameters(p1.value, symbol_config.default)
              ELSE p1
        p3 == IF /\ p2.err = "none"
                 /\ hasSymbol
                 /\ timeframe # NONE
                 /\ "timeframes" \in DOMAIN symbol_config
                 /\ timeframe \in DOMAIN symbol_config.timeframes
              THEN _merge_parameters(p2.value, symbol_config.timeframes[timeframe])
              ELSE p2
    IN  p3

\* ParameterManager.config_file and the file at that path: the path as
\* os.path splits it, and the file absent or holding JSON text
DEFAULT_CONFIG_FILE == [dirname |-> "data", basename |-> "parameters.json"]
FileAt(path) == [path |-> path, exists |-> FALSE]
NoFile == FileAt(DEFAULT_CONFIG_FILE)

\* json.dump of self.overrides: the nested objects keep their keys; a value
\* becomes the text of a number, written with or without a fraction part, or
\* of a literal true/false
JsonDump(self_overrides) ==
    LET JsonValue(field, v) ==
            IF field = "volume_confirmation"
            THEN [literal |-> IF v THEN "true" ELSE "false"]
            ELSE IF field = "max_age_candles" THEN [number |-> v, fraction |-> FALSE]
            ELSE [number |-> v, fraction |-> TRUE]
        JsonDoc(doc) ==
            [group \in DOMAIN doc |->
                [field \in DOMAIN doc[group] |-> JsonValue(field, doc[group][field])]]
        JsonDocs(docs) == [k \in DOMAIN docs |-> JsonDoc(docs[k])]
        JsonSymbol(cfg) ==
            [k \in DOMAIN cfg |->
                IF k = "default" THEN JsonDoc(cfg[k]) ELSE JsonDocs(cfg[k])]
    IN  [k \in DOMAIN self_overrides |->
            IF k = "timeframes" THEN JsonDocs(self_overrides[k])
            ELSE [symbol \in DOMAIN self_overrides[k] |->
                     JsonSymbol(self_overrides[k][symbol])]]

\* json.load of that text: objects become dicts, a number an int or a
\* float, a literal a bool
JsonLoad(text) ==
    LET PyValue(t) == IF "literal" \in DOMAIN t THEN t.literal = "true" ELSE t.number
        PyDoc(t) ==
            [group \in DOMAIN t |->
                [field \in DOMAIN t[group] |-> PyValue(t[group][field])]]
        PyDocs(t) == [k \in DOMAIN t |-> PyDoc(t[k])]
        PySymbol(t) ==
            [k \in DOMAIN t |-> IF k = "default" THEN PyDoc(t[k]) ELSE PyDocs(t[k])]
    IN  [k \in DOMAIN text |->
            IF k = "timeframes" THEN PyDocs(text[k])
            ELSE [symbol \in DOMAIN text[k] |-> PySymbol(text[k][symbol])]]

\* os.makedirs(os.path.dirname(self.config_file)), which raises on the empty
\* dirname of a bare file name, then json.dump({'overrides': self.overrides})
\* into the file; the exception is caught and printed, and nothing is written
save_overrides(file, self_overrides) ==
    IF file.path.dirname = "" THEN file
    ELSE [path |-> file.path, exists |-> TRUE,
          data |-> [overrides |-> JsonDump(self_overrides)]]

\* os.path.exists, json.load, then data.get('overrides', {})
load_overrides(file) ==
    IF file.exists /\ "overrides" \in DOMAIN file.data
    THEN JsonLoad(file.data.overrides)
    ELSE EmptyDict

\* the store after set_symbol_parameters(symbol, parameters, timeframe)
SymbolStored(self_overrides, symbol, parameters, timeframe) ==
    LET symbols == IF "symbols" \in DOMAIN self_overrides
                   THEN self_overrides.symbols ELSE EmptyDict
        cfg == IF symbol \in DOMAIN symbols THEN symbols[symbol] ELSE EmptyDict
        tfs == IF "timeframes" \in DOMAIN cfg THEN cfg.timeframes ELSE EmptyDict
        cfg2 == IF timeframe # NONE
                THEN Put(cfg, "timeframes", Put(tfs, timeframe, parameters))
                ELSE Put(cfg, "default", parameters)
    IN  Put(self_overrides, "symbols", Put(symbols, symbol, cfg2))

\* the store after set_timeframe_parameters(timeframe, parameters)
TimeframeStored(self_overrides, timeframe, parameters) ==
    LET tfs == IF "timeframes" \in DOMAIN self_overrides
               THEN self_overrides.timeframes ELSE EmptyDict
    IN  Put(self_overrides, "timeframes", Put(tfs, timeframe, parameters))

\* a removal that drops the default document of the symbol and keeps its
\* timeframe documents
SymbolRemovedDefaultOnly(self_overrides, symbol, timeframe) ==
    LET symbols == self_overrides.symbols
        cfg == symbols[symbol]
    IN  IF timeframe # NONE
        THEN IF "timeframes" \in DOMAIN cfg
             THEN Put(self_overrides, "symbols",
                      Put(symbols, symbol,
                          Put(cfg, "timeframes", Pop(cfg.timeframes, timeframe))))
             ELSE self_overrides
        ELSE Put(self_overrides, "symbols", Put(symbols, symbol, Pop(cfg, "default")))

\* the store after remove_symbol_parameters(symbol, timeframe), past its early return
SymbolRemoved(self_overrides, symbol, timeframe) ==
    LET symbols == self_overrides.symbols
        cfg == symbols[symbol]
    IN  IF timeframe # NONE
        THEN IF "timeframes" \in DOMAIN cfg
             THEN Put(self_overrides, "symbols",
                      Put(symbols, symbol,
                          Put(cfg, "timeframes", Pop(cfg.timeframes, timeframe))))
             ELSE self_overrides
        ELSE Put(self_overrides, "symbols", Pop(symbols, symbol))

\* the inputs of the parameter operations
Symbols == {"BTC/USDT"}
Timeframes == {"1m"}
QuerySymbols == Symbols \cup {"ETH/USDT", NONE}
QueryTimeframes == Timeframes \cup {"1h", NONE}

DocTf == [fvg |-> [min_gap_percent |-> R(1, 5), max_age_candles |-> 20]]
DocSym == [risk |-> [take_profit_rr_ratio |-> R(3, 1)],
           fvg |-> [min_gap_percent |-> R(1, 4)]]
DocSymTf == [risk |-> [max_risk_percent |-> R(1, 2)],
             fvg |-> [min_gap_percent |-> R(3, 10)]]
DocBad == [risk |-> [max_risk_pct |-> R(1, 2)]]
ValidDocs == {DocTf, DocSym, DocSymTf}
Docs == ValidDocs \cup {DocBad}

Call(op, symbol, timeframe, parameters, out) ==
    [op |-> op, symbol |-> symbol, timeframe |-> timeframe,
     parameters |-> parameters, out |-> out]

NoCall == Call("none", NONE, NONE, NONE, ReturnNone)

\* a resolution that keeps its result in the override store
GetParametersKeepingResult(symbol, timeframe) ==
    /\ ret' = Call("get_parameters", symbol, timeframe, NONE,
                   get_parameters(overrides, symbol, timeframe))
    /\ overrides' = Put(overrides, "resolved", ret'.out)
    /\ UNCHANGED config_file

GetParameters(symbol, timeframe) ==
    /\ ret' = Call("get_parameters", symbol, timeframe, NONE,
                   get_parameters(overrides, symbol, timeframe))
    /\ UNCHANGED <<overrides, config_file>>

SetSymbolParameters(symbol, parameters, timeframe) ==
    /\ overrides' = SymbolStored(overrides, symbol, parameters, timeframe)
    /\ config_file' = save_overrides(config_file, overrides')
    /\ ret' = Call("set_symbol_parameters", symbol, timeframe, parameters, ReturnNone)

SetTimeframeParameters(timeframe, parameters) ==
    /\ overrides' = TimeframeStored(overrides, timeframe, parameters)
    /\ config_file' = save_overrides(config_file, overrides')
    /\ ret' = Call("set_timeframe_parameters", NONE, timeframe, parameters, ReturnNone)

RemoveSymbolParameters(symbol, timeframe) ==
    /\ IF "symbols" \notin DOMAIN overrides \/ symbol \notin DOMAIN overrides.symbols
       THEN UNCHANGED <<overrides, config_file>>
       ELSE /\ overrides' = SymbolRemoved(overrides, symbol, timeframe)
            /\ config_file' = save_overrides(config_file, overrides')
    /\ ret' = Call("remove_symbol_parameters", symbol, timeframe, NONE, ReturnNone)

-----------------------------------------------------------------------------
(* src/patterns/base.py, src/patterns/fvg.py: the FVG detector *)

\* df.iloc[j], with Python's 0-based index
Iloc(frame, j) == frame[j + 1]

RECURSIVE SumR(_, _, _)
\* f[lo] + ... + f[hi]
SumR(f, lo, hi) == IF lo > hi THEN Zero ELSE Add(f[lo], SumR(f, lo + 1, hi))

MaxR(a, b) == IF Lt(a, b) THEN b ELSE a

ATR_PERIOD == 14

\* tr.iloc[j]: the row maximum of (high-low, |high-prev close|, |low-prev close|);
\* at j = 0 the shifted close is NaN and max(axis=1) skips it
TrueRange(frame, j) ==
    LET c == Iloc(frame, j)
        tr1 == Sub(c.high, c.low)
    IN  IF j = 0 THEN tr1
        ELSE LET close == Iloc(frame, j - 1).close
             IN  MaxR(MaxR(tr1, AbsR(Sub(c.high, close))), AbsR(Sub(c.low, close)))

\* calculate_atr(df).iloc[j]: tr.rolling(window=period).mean()
calculate_atr(frame, period, j) ==
    IF j < period - 1 THEN NaN
    ELSE Div(SumR([k \in (j - period + 1)..j |-> TrueRange(frame, k)],
                  j - period + 1, j),
             Int2R(period))

\* a stop that is the flat 2 percent offset whatever the ATR
calculate_stop_loss_flat(self_overrides, entry_price, direction, symbol, timeframe, atr) ==
    IF direction = "bullish" THEN Mul(entry_price, R(98, 100))
    ELSE Mul(entry_price, R(102, 100))

calculate_stop_loss(self_overrides, entry_price, direction, symbol, timeframe, atr) ==
    LET params == get_parameters(self_overrides, symbol, timeframe).value
        multiplier == params.risk.stop_loss_atr_multiplier
    IN  IF Truthy(atr)
        THEN IF direction = "bullish"
             THEN Sub(entry_price, Mul(atr, multiplier))
             ELSE Add(entry_price, Mul(atr, multiplier))
        ELSE IF direction = "bullish"
             THEN Mul(entry_price, R(98, 100))
             ELSE Mul(entry_price, R(102, 100))

calculate_take_profit(self_overrides, entry_price, stop_loss, direction, symbol, timeframe) ==
    LET params == get_parameters(self_overrides, symbol, timeframe).value
        rr_ratio == params.risk.take_profit_rr_ratio
        risk == AbsR(Sub(entry_price, stop_loss))
    IN  IF direction = "bullish"
        THEN Add(entry_price, Mul(risk, rr_ratio))
        ELSE Sub(entry_price, Mul(risk, rr_ratio))

Pattern(symbol, timeframe, direction, timestamp, entry_price, stop_loss, take_profit, gap_top, gap_bottom, gap_size_percent) ==
    [symbol |-> symbol, timeframe |-> timeframe, pattern_type |-> "fvg",
     direction |-> direction, start_timestamp |-> timestamp,
     entry_price |-> entry_price, stop_loss |-> stop_loss,
     take_profit |-> take_profit, gap_top |-> gap_top,
     gap_bottom |-> gap_bottom, gap_size_percent |-> gap_size_percent,
     is_valid |-> TRUE]

\* a bullish detector that enters at the bottom of the gap
_detect_bullish_fvg_entry_at_bottom(self_overrides, candle_0, candle_1, candle_2, timestamp, symbol, timeframe, atr) ==
    LET gap_bottom == candle_0.high
        gap_top == candle_2.low
        gap_size == Sub(gap_top, gap_bottom)
        gap_size_percent == Mul(Div(gap_size, gap_bottom), Int2R(100))
        params == get_parameters(self_overrides, symbol, timeframe).value
        entry_price == gap_bottom
        stop_loss == calculate_stop_loss(self_overrides, gap_bottom, "bullish",
                                         symbol, timeframe, atr)
        take_profit == calculate_take_profit(self_overrides, entry_price, stop_loss,
                                             "bullish", symbol, timeframe)
    IN  IF Ge(gap_bottom, gap_top) THEN <<>>
        ELSE IF Lt(gap_size_percent, params.fvg.min_gap_percent) THEN <<>>
        ELSE IF Le(candle_2.close, candle_2.open) THEN <<>>
        ELSE IF params.fvg.volume_confirmation /\ Le(candle_2.volume, candle_1.volume)
             THEN <<>>
        ELSE <<Pattern(symbol, timeframe, "bullish", timestamp, entry_price,
                       stop_loss, take_profit, gap_top, gap_bottom,
                       gap_size_percent)>>

\* a bearish detector that measures the gap against its bottom
_detect_bearish_fvg_by_gap_bottom(self_overrides, candle_0, candle_1, candle_2, timestamp, symbol, timeframe, atr) ==
    LET gap_top == candle_0.low
        gap_bottom == candle_2.high
        gap_size == Sub(gap_top, gap_bottom)
        gap_size_percent == Mul(Div(gap_size, gap_bottom), Int2R(100))
        params == get_parameters(self_overrides, symbol, timeframe).value
        entry_price == Div(Add(gap_bottom, gap_top), Int2R(2))
        stop_loss == calculate_stop_loss(self_overrides, gap_top, "bearish",
                                         symbol, timeframe, atr)
        take_profit == calculate_take_profit(self_overrides, entry_price, stop_loss,
                                             "bearish", symbol, timeframe)
    IN  IF Le(gap_top, gap_bottom) THEN <<>>
        ELSE IF Lt(gap_size_percent, params.fvg.min_gap_percent) THEN <<>>
        ELSE IF Ge(candle_2.close, candle_2.open) THEN <<>>
        ELSE IF params.fvg.volume_confirmation /\ Le(candle_2.volume, candle_1.volume)
             THEN <<>>
        ELSE <<Pattern(symbol, timeframe, "bearish", timestamp, entry_price,
                       stop_loss, take_profit, gap_top, gap_bottom,
                       gap_size_percent)>>

\* <<>> stands for the None the code returns when a check fails
_detect_bullish_fvg(self_overrides, candle_0, candle_1, candle_2, timestamp, symbol, timeframe, atr) ==
    LET gap_bottom == candle_0.high
        gap_top == candle_2.low
        gap_size == Sub(gap_top, gap_bottom)
        gap_size_percent == Mul(Div(gap_size, gap_bottom), Int2R(100))
        params == get_parameters(self_overrides, symbol, timeframe).value
        entry_price == Div(Add(gap_bottom, gap_top), Int2R(2))
        stop_loss == calculate_stop_loss(self_overrides, gap_bottom, "bullish",
                                         symbol, timeframe, atr)
        take_profit == calculate_take_profit(self_overrides, entry_price, stop_loss,
                                             "bullish", symbol, timeframe)
    IN  IF Ge(gap_bottom, gap_top) THEN <<>>
        ELSE IF Lt(gap_size_percent, params.fvg.min_gap_percent) THEN <<>>
        ELSE IF Le(candle_2.close, candle_2.open) THEN <<>>
        ELSE IF params.fvg.volume_confirmation /\ Le(candle_2.volume, candle_1.volume)
             THEN <<>>
        ELSE <<Pattern(symbol, timeframe, "bullish", timestamp, entry_price,
                       stop_loss, take_profit, gap_top, gap_bottom,
                       gap_size_percent)>>

_detect_bearish_fvg(self_overrides, candle_0, candle_1, candle_2, timestamp, symbol, timeframe, atr) ==
    LET gap_top == candle_0.low
        gap_bottom == candle_2.high
        gap_size == Sub(gap_top, gap_bottom)
        gap_size_percent == Mul(Div(gap_size, gap_top), Int2R(100))
        params == get_parameters(self_overrides, symbol, timeframe).value
        entry_price == Div(Add(gap_bottom, gap_top), Int2R(2))
        stop_loss == calculate_stop_loss(self_overrides, gap_top, "bearish",
                                         symbol, timeframe, atr)
        take_profit == calculate_take_profit(self_overrides, entry_price, stop_loss,
                                             "bearish", symbol, timeframe)
    IN  IF Le(gap_top, gap_bottom) THEN <<>>
        ELSE IF Lt(gap_size_percent, params.fvg.min_gap_percent) THEN <<>>
        ELSE IF Ge(candle_2.close, candle_2.open) THEN <<>>
        ELSE IF params.fvg.volume_confirmation /\ Le(candle_2.volume, candle_1.volume)
             THEN <<>>
        ELSE <<Pattern(symbol, timeframe, "bearish", timestamp, entry_price,
                       stop_loss, take_profit, gap_top, gap_bottom,
                       gap_size_percent)>>

\* the body of "for i in range(2, len(df))" at index j: the patterns it appends
detect_at(self_overrides, frame, symbol, timeframe, j) ==
    LET candle_0 == Iloc(frame, j - 2)
        candle_1 == Iloc(frame, j - 1)
        candle_2 == Iloc(frame, j)
        timestamp_2 == candle_2.timestamp
        atr == calculate_atr(frame, ATR_PERIOD, j)
    IN  _detect_bullish_fvg(self_overrides, candle_0, candle_1, candle_2,
                            timestamp_2, symbol, timeframe, atr)
        \o _detect_bearish_fvg(self_overrides, candle_0, candle_1, candle_2,
                               timestamp_2, symbol, timeframe, atr)

RECURSIVE detect_loop_descending(_, _, _, _, _, _)
\* a loop that appends the later indexes first
detect_loop_descending(self_overrides, frame, symbol, timeframe, lo, hi) ==
    IF lo > hi THEN <<>>
    ELSE detect_loop_descending(self_overrides, frame, symbol, timeframe, lo + 1, hi)
         \o detect_at(self_overrides, frame, symbol, timeframe, lo)

RECURSIVE detect_loop(_, _, _, _, _, _)
\* what the loop appends for the indexes lo..hi, in index order (the range is
\* halved so that the evaluation stays shallow)
detect_loop(self_overrides, frame, symbol, timeframe, lo, hi) ==
    IF lo > hi THEN <<>>
    ELSE IF lo = hi THEN detect_at(self_overrides, frame, symbol, timeframe, lo)
    ELSE LET mid == (lo + hi) \div 2
         IN  detect_loop(self_overrides, frame, symbol, timeframe, lo, mid)
             \o detect_loop(self_overrides, frame, symbol, timeframe, mid + 1, hi)

\* FVGPattern.detect: the outcome is the list of patterns, or the exception
\* get_parameters raised
detect(self_overrides, frame, symbol, timeframe) ==
    IF Len(frame) < 3 THEN Ok(<<>>)
    ELSE LET params == get_parameters(self_overrides, symbol, timeframe)
         IN  IF params.err # "none" THEN Raise(params.err)
             ELSE Ok(detect_loop(self_overrides, frame, symbol, timeframe, 2,
                                 Len(frame) - 1))

-----------------------------------------------------------------------------
(* src/backtesting/engine.py: BacktestEngine *)

WINDOW_SIZE == 100
MIN_CANDLES == 100

\* an entry that divides the risk budget by the distance to the stop whatever
\* the distance
_enter_trade_dividing(self_capital, pattern, entry_price, entry_time) ==
    LET risk_amount == Mul(self_capital, Div(MAX_RISK_PERCENT, Int2R(100)))
        risk_per_unit == AbsR(Sub(entry_price, pattern.stop_loss))
        max_position == Mul(self_capital, Div(POSITION_SIZE_PERCENT, Int2R(100)))
    IN  [direction |-> pattern.direction,
         entry_price |-> entry_price,
         stop_loss |-> pattern.stop_loss,
         take_profit |-> pattern.take_profit,
         position_size |-> MinR(Div(risk_amount, risk_per_unit), max_position),
         entry_time |-> entry_time,
         exit_price |-> NONE,
         exit_time |-> NONE,
         exit_reason |-> NONE,
         pnl |-> NONE]

_enter_trade(self_capital, pattern, entry_price, entry_time) ==
    LET risk_amount == Mul(self_capital, Div(MAX_RISK_PERCENT, Int2R(100)))
        risk_per_unit == AbsR(Sub(entry_price, pattern.stop_loss))
        position_size == IF Gt(risk_per_unit, Zero)
                         THEN Div(risk_amount, risk_per_unit)
                         ELSE Zero
        max_position == Mul(self_capital, Div(POSITION_SIZE_PERCENT, Int2R(100)))
    IN  [direction |-> pattern.direction,
         entry_price |-> entry_price,
         stop_loss |-> pattern.stop_loss,
         take_profit |-> pattern.take_profit,
         position_size |-> MinR(position_size, max_position),
         entry_time |-> entry_time,
         exit_price |-> NONE,
         exit_time |-> NONE,
         exit_reason |-> NONE,
         pnl |-> NONE]

\* the exit signal, or NONE
_check_exit(trade, candle) ==
    IF trade.direction = "long"
    THEN IF Le(candle.low, trade.stop_loss)
         THEN [price |-> trade.stop_loss, reason |-> "stop_loss"]
         ELSE IF Ge(candle.high, trade.take_profit)
         THEN [price |-> trade.take_profit, reason |-> "take_profit"]
         ELSE [price |-> NaN, reason |-> NONE]
    ELSE IF Ge(candle.high, trade.stop_loss)
         THEN [price |-> trade.stop_loss, reason |-> "stop_loss"]
         ELSE IF Le(candle.low, trade.take_profit)
         THEN [price |-> trade.take_profit, reason |-> "take_profit"]
         ELSE [price |-> NaN, reason |-> NONE]

\* the profit or loss of a trade at a price (realized in _close_trade,
\* unrealized in the equity record)
TradePnl(trade, price) ==
    IF trade.direction = "long"
    THEN Div(Mul(Sub(price, trade.entry_price), trade.position_size), trade.entry_price)
    ELSE Div(Mul(Sub(trade.entry_price, price), trade.position_size), trade.entry_price)

\* the trade as _close_trade leaves it
_close_trade(trade, exit_price, exit_time, exit_reason) ==
    [trade EXCEPT !.exit_price = exit_price,
                  !.exit_time = exit_time,
                  !.exit_reason = exit_reason,
                  !.pnl = TradePnl(trade, exit_price)]

RECURSIVE ExitLoopKeepingCapital(_, _, _, _, _, _)
\* a choice of exit loop that books the closed trade and leaves the capital
ExitLoopKeepingCapital(active, k, candle, cap, ledger, open) ==
    IF k > Len(active) THEN [capital |-> cap, trades |-> ledger, active |-> open]
    ELSE LET trade == active[k]
             exit_signal == _check_exit(trade, candle)
             closed == _close_trade(trade, exit_signal.price, candle.timestamp,
                                    exit_signal.reason)
         IN  IF exit_signal.reason # NONE
             THEN ExitLoopKeepingCapital(active, k + 1, candle, cap,
                                         Append(ledger, closed), open)
             ELSE ExitLoopKeepingCapital(active, k + 1, candle, cap, ledger,
                                         Append(open, trade))

RECURSIVE ExitLoop(_, _, _, _, _, _)
\* "for trade in active_trades": closes each trade with an exit signal;
\* yields the capital, the ledger and the trades left open
ExitLoop(active, k, candle, cap, ledger, open) ==
    IF k > Len(active) THEN [capital |-> cap, trades |-> ledger, active |-> open]
    ELSE LET trade == active[k]
             exit_signal == _check_exit(trade, candle)
             closed == _close_trade(trade, exit_signal.price, candle.timestamp,
                                    exit_signal.reason)
         IN  IF exit_signal.reason # NONE
             THEN ExitLoop(active, k + 1, candle, Add(cap, closed.pnl),
                           Append(ledger, closed), open)
             ELSE ExitLoop(active, k + 1, candle, cap, ledger, Append(open, trade))

RECURSIVE Unrealized(_, _, _)
Unrealized(active, k, price) ==
    IF k > Len(active) THEN Zero
    ELSE Add(TradePnl(active[k], price), Unrealized(active, k + 1, price))

\* an entry rule that ignores the trades already open
ShouldEnterWhileOpen(active, latest_pattern, current_candle) ==
    IF latest_pattern.direction = "bullish"
    THEN Le(current_candle.low, latest_pattern.entry_price)
    ELSE Ge(current_candle.high, latest_pattern.entry_price)

\* "if not active_trades or len(active_trades) == 0", then the entry price touched
ShouldEnter(active, latest_pattern, current_candle) ==
    /\ Len(active) = 0
    /\ IF latest_pattern.direction = "bullish"
       THEN Le(current_candle.low, latest_pattern.entry_price)
       ELSE Ge(current_candle.high, latest_pattern.entry_price)


RECURSIVE RunningMax(_, _)
\* equity_series.expanding().max() at position k
RunningMax(equity, k) ==
    IF k = 1 THEN equity[1] ELSE MaxR(RunningMax(equity, k - 1), equity[k])

RECURSIVE MinSkipNaN(_, _)
\* Series.min() of f[1..k]: NaN entries are skipped; NaN when nothing is left
MinSkipNaN(f, k) ==
    IF k = 0 THEN NaN
    ELSE LET rest == MinSkipNaN(f, k - 1)
         IN  IF IsNaN(f[k]) THEN rest
             ELSE IF IsNaN(rest) THEN f[k]
             ELSE MinR(rest, f[k])

\* abs(((equity - running_max) / running_max).min()) * 100
MaxDrawdown(curve) ==
    LET equity == [k \in 1..Len(curve) |-> curve[k].equity]
        drawdown == [k \in 1..Len(curve) |->
                        Div(Sub(equity[k], RunningMax(equity, k)),
                            RunningMax(equity, k))]
    IN  Mul(AbsR(MinSkipNaN(drawdown, Len(curve))), Int2R(100))

RECURSIVE SumPnl(_, _, _)
\* sum(t['pnl'] for t in ledger if keep[t])
SumPnl(ledger, keep, k) ==
    IF k = 0 THEN Zero
    ELSE IF k \in keep THEN Add(ledger[k].pnl, SumPnl(ledger, keep, k - 1))
    ELSE SumPnl(ledger, keep, k - 1)

\* the BacktestResult, or None when the ledger is empty; the Sharpe ratio and
\* the per-trade extremes are left out: nothing reads them back
_calculate_metrics(initial_capital, self_capital, self_trades, self_equity_curve) ==
    IF Len(self_trades) = 0 THEN ReturnNone
    ELSE LET all == 1..Len(self_trades)
             winning == {k \in all : Gt(self_trades[k].pnl, Zero)}
             losing == {k \in all : Le(self_trades[k].pnl, Zero)}
             total_pnl == SumPnl(self_trades, all, Len(self_trades))
             total_wins == SumPnl(self_trades, winning, Len(self_trades))
             total_losses == AbsR(SumPnl(self_trades, losing, Len(self_trades)))
         IN  Ok([strategy_name |-> "FVG",
                 initial_capital |-> initial_capital,
                 total_trades |-> Len(self_trades),
                 winning_trades |-> Cardinality(winning),
                 losing_trades |-> Cardinality(losing),
                 win_rate |-> R(Cardinality(winning) * 100, Len(self_trades)),
                 total_pnl |-> total_pnl,
                 total_pnl_percent |-> Mul(Div(total_pnl, initial_capital), Int2R(100)),
                 max_drawdown |-> MaxDrawdown(self_equity_curve),
                 profit_factor |-> IF Gt(total_losses, Zero)
                                   THEN Div(total_wins, total_losses) ELSE Zero,
                 final_capital |-> self_capital])

\* reads result.total_trades first: AttributeError on None
_display_results(metrics) ==
    IF metrics.none THEN Raise("AttributeError") ELSE ReturnNone

\* the inputs of a backtest run
BT_SYMBOL == "BTC/USDT"
BT_TIMEFRAME == "1m"
initial_capital == Int2R(BACKTEST_INITIAL_CAPITAL)

\* a run start that keeps the capital, ledger and equity curve of the last run
BacktestResetKeepsLedger ==
    /\ pc \in {"idle", "returned"}
    /\ pc' = "reset"
    /\ candles' = <<>>
    /\ i' = 0
    /\ active_trades' = <<>>
    /\ UNCHANGED <<capital, trades, equity_curve, result>>

\* a run start that keeps the capital of the last run
BacktestResetKeepsCapital ==
    /\ pc \in {"idle", "returned"}
    /\ pc' = "reset"
    /\ trades' = <<>>
    /\ equity_curve' = <<>>
    /\ candles' = <<>>
    /\ i' = 0
    /\ active_trades' = <<>>
    /\ UNCHANGED <<capital, result>>

\* lines 58-61: a run first resets the engine's state (the locals of an
\* earlier run are gone; what the earlier run returned is with its caller
\* until the new run has its candles)
BacktestReset ==
    /\ pc \in {"idle", "returned"}
    /\ pc' = "reset"
    /\ capital' = initial_capital
    /\ trades' = <<>>
    /\ equity_curve' = <<>>
    /\ candles' = <<>>
    /\ i' = 0
    /\ active_trades' = <<>>
    /\ UNCHANGED result

\* lines 63-97: db_manager.get_candles returns the series; fewer than 100
\* candles end the run with None
BacktestLoad(series) ==
    /\ pc = "reset"
    /\ candles' = series
    /\ IF Len(series) = 0 \/ Len(series) < MIN_CANDLES
       THEN /\ pc' = "returned"
            /\ i' = 0
       ELSE /\ pc' = "loop"
            /\ i' = WINDOW_SIZE
    /\ result' = ReturnNone
    /\ UNCHANGED <<capital, trades, active_trades, equity_curve>>

\* a choice of iteration that checks the exits before the entry
BacktestStepExitFirst ==
    /\ pc = "loop"
    /\ i < Len(candles)
    /\ LET lo == IF i - WINDOW_SIZE > 0 THEN i - WINDOW_SIZE ELSE 0
           window_df == SubSeq(candles, lo + 1, i + 1)
           current_candle == Iloc(candles, i)
           current_price == current_candle.close
           current_timestamp == current_candle.timestamp
       IN  \E detected \in {detect(overrides, window_df, BT_SYMBOL, BT_TIMEFRAME)} :
           IF detected.err # "none"
           THEN /\ pc' = "returned"
                /\ result' = Raise(detected.err)
                /\ UNCHANGED <<candles, i, capital, trades, active_trades, equity_curve>>
           ELSE \E after \in {ExitLoop(active_trades, 1, current_candle, capital, trades,
                                        <<>>)} :
                LET found == detected.value
                    latest_pattern == found[Len(found)]
                    entered ==
                        IF Len(found) > 0
                           /\ ShouldEnter(after.active, latest_pattern, current_candle)
                        THEN Append(after.active,
                                    _enter_trade(after.capital, latest_pattern,
                                                 latest_pattern.entry_price,
                                                 current_timestamp))
                        ELSE after.active
                    total_equity == Add(after.capital, Unrealized(entered, 1, current_price))
                IN  /\ capital' = after.capital
                    /\ trades' = after.trades
                    /\ active_trades' = entered
                    /\ equity_curve' = Append(equity_curve,
                                              [timestamp |-> current_timestamp,
                                               equity |-> total_equity])
                    /\ i' = i + 1
                    /\ UNCHANGED <<pc, candles, result>>

\* one iteration of "for i in range(window_size, len(df))"
BacktestStep ==
    /\ pc = "loop"
    /\ i < Len(candles)
    /\ LET lo == IF i - WINDOW_SIZE > 0 THEN i - WINDOW_SIZE ELSE 0
           window_df == SubSeq(candles, lo + 1, i + 1)
           current_candle == Iloc(candles, i)
           current_price == current_candle.close
           current_timestamp == current_candle.timestamp
       IN  \E detected \in {detect(overrides, window_df, BT_SYMBOL, BT_TIMEFRAME)} :
           IF detected.err # "none"
           THEN /\ pc' = "returned"
                /\ result' = Raise(detected.err)
                /\ UNCHANGED <<candles, i, capital, trades, active_trades, equity_curve>>
           ELSE LET found == detected.value
                    latest_pattern == found[Len(found)]
                    entered ==
                        IF Len(found) > 0
                           /\ ShouldEnter(active_trades, latest_pattern, current_candle)
                        THEN Append(active_trades,
                                    _enter_trade(capital, latest_pattern,
                                                 latest_pattern.entry_price,
                                                 current_timestamp))
                        ELSE active_trades
                IN  \E after \in {ExitLoop(entered, 1, current_candle, capital, trades, <<>>)} :
                    LET total_equity == Add(after.capital,
                                        Unrealized(after.active, 1, current_price))
                    IN
                    /\ capital' = after.capital
                    /\ trades' = after.trades
                    /\ active_trades' = after.active
                    /\ equity_curve' = Append(equity_curve,
                                              [timestamp |-> current_timestamp,
                                               equity |-> total_equity])
                    /\ i' = i + 1
                    /\ UNCHANGED <<pc, candles, result>>

\* lines 170-181: metrics, display, save, return
BacktestFinish ==
    /\ pc = "loop"
    /\ i >= Len(candles)
    /\ LET metrics == _calculate_metrics(initial_capital, capital, trades, equity_curve)
           shown == _display_results(metrics)
       IN  result' = IF shown.err # "none" THEN shown ELSE metrics
    /\ pc' = "returned"
    /\ UNCHANGED <<candles, i, capital, trades, active_trades, equity_curve>>


-----------------------------------------------------------------------------
(* Inputs: candle series *)

Candle(den, open, high, low, close, volume) ==
    [timestamp |-> 0, open |-> R(open, den), high |-> R(high, den),
     low |-> R(low, den), close |-> R(close, den), volume |-> Int2R(volume)]

\* the timestamp of a candle is its position in the series
Stamp(shapes) == [k \in 1..Len(shapes) |-> [shapes[k] EXCEPT !.timestamp = k - 1]]

Repeat(shape, n) == [k \in 1..n |-> shape]

SeqsUpTo(S, n) == UNION {[1..m -> S] : m \in 0..n}

\* detector inputs: prices in whole dollars around 100
DFlat == Candle(1, 100, 100, 100, 100, 10)
DUp == Candle(1, 104, 110, 104, 110, 20)
DUpRed == Candle(1, 110, 110, 104, 104, 20)
DUpDoji == Candle(1, 104, 110, 104, 104, 20)
DDown == Candle(1, 96, 96, 90, 90, 20)
DDownGreen == Candle(1, 90, 96, 90, 96, 20)
DetectShapes == {DFlat, DUp, DUpRed, DUpDoji, DDown, DDownGreen}

MaxDetectTail == 3
DetectWarmups == {0, ATR_PERIOD - 2}
DetectFrames ==
    {Stamp(Repeat(DFlat, n) \o tail) :
        n \in DetectWarmups, tail \in SeqsUpTo(DetectShapes, MaxDetectTail)}

DETECT_SYMBOL == "BTC/USDT"
DETECT_TIMEFRAME == "1m"
DetectStores ==
    {EmptyDict,
     TimeframeStored(EmptyDict, "1m", [fvg |-> [min_gap_percent |-> Int2R(4)]]),
     TimeframeStored(EmptyDict, "1m", [fvg |-> [min_gap_percent |-> R(41, 10)]]),
     TimeframeStored(EmptyDict, "1m", [fvg |-> [min_gap_percent |-> Int2R(5)]]),
     SymbolStored(EmptyDict, "BTC/USDT", [fvg |-> [volume_confirmation |-> FALSE]], NONE),
     SymbolStored(EmptyDict, "BTC/USDT",
                  [risk |-> [stop_loss_atr_multiplier |-> Int2R(2),
                             take_profit_rr_ratio |-> Int2R(3)]], "1m"),
     SymbolStored(EmptyDict, "BTC/USDT", DocBad, "1m")}

\* backtest inputs: a sub-cent instrument, prices in thousandths of a dollar
Flat == Candle(1000, 8, 8, 8, 8, 10)
GapUp == Candle(1000, 12, 36, 12, 36, 20)
Retrace == Candle(1000, 12, 12, 10, 10, 10)
Drop == Candle(1000, 10, 10, 4, 4, 10)
GapDown == Candle(1000, 6, 6, 4, 4, 20)
Spike == Candle(1000, 8, 4680, 8, 8, 10)
BacktestShapes == {Flat, GapUp, Retrace, Drop, GapDown, Spike}

MaxTail == 3
ShortLengths == {0, 1, MIN_CANDLES - 1}
BacktestSeries ==
    {Stamp(Repeat(Flat, n)) : n \in ShortLengths}
    \cup {Stamp(Repeat(Flat, MIN_CANDLES) \o tail) :
              tail \in SeqsUpTo(BacktestShapes, MaxTail)}

-----------------------------------------------------------------------------
(* Specifications *)

IdleParams ==
    /\ config_file = NoFile
    /\ overrides = load_overrides(config_file)
    /\ ret = NoCall

IdleDetect ==
    /\ df = <<>>
    /\ patterns = Ok(<<>>)

IdleEngine ==
    /\ pc = "idle"
    /\ candles = <<>>
    /\ i = 0
    /\ capital = initial_capital
    /\ trades = <<>>
    /\ active_trades = <<>>
    /\ equity_curve = <<>>
    /\ result = ReturnNone

\* an empty patterns table and no call made yet
IdleStore ==
    /\ db_patterns = <<>>
    /\ clock = 0
    /\ called = [op |-> "none"]
    /\ db_signals = <<>>

(* The parameter store on its own: any sequence of set / remove / resolve, *)
(* from ParameterManager.__init__ with no config file on disk              *)
InitParams ==
    /\ IdleParams
    /\ IdleDetect
    /\ IdleEngine
    /\ IdleStore

otherThanParams == <<pc, df, patterns, candles, i, capital, trades, active_trades,
                     equity_curve, result, db_patterns, clock, called,
                     db_signals>>

NextParams ==
    \/ \E s \in QuerySymbols, tf \in QueryTimeframes :
           GetParameters(s, tf) /\ UNCHANGED otherThanParams
    \/ \E s \in Symbols, tf \in Timeframes \cup {NONE}, d \in Docs :
           SetSymbolParameters(s, d, tf) /\ UNCHANGED otherThanParams
    \/ \E tf \in Timeframes, d \in Docs :
           SetTimeframeParameters(tf, d) /\ UNCHANGED otherThanParams
    \/ \E s \in QuerySymbols \ {NONE}, tf \in Timeframes \cup {NONE} :
           RemoveSymbolParameters(s, tf) /\ UNCHANGED otherThanParams

SpecParams == InitParams /\ [][NextParams]_vars

\* a call of save_overrides and a call of load_overrides by the owner of the
\* manager
SaveOverrides ==
    /\ config_file' = save_overrides(config_file, overrides)
    /\ ret' = Call("save_overrides", NONE, NONE, NONE, ReturnNone)
    /\ UNCHANGED overrides

LoadOverrides ==
    /\ overrides' = load_overrides(config_file)
    /\ ret' = Call("load_overrides", NONE, NONE, NONE, ReturnNone)
    /\ UNCHANGED config_file

\* the managers ParameterManager(config_file) constructs: the default path
\* and a bare file name in the working directory, no file there yet
ConfigFiles == {DEFAULT_CONFIG_FILE, [dirname |-> "", basename |-> "parameters.json"]}

InitRoundTrip ==
    /\ \E path \in ConfigFiles : config_file = FileAt(path)
    /\ overrides = EmptyDict
    /\ ret = NoCall
    /\ IdleDetect
    /\ IdleEngine
    /\ IdleStore

NextRoundTrip ==
    \/ NextParams
    \/ SaveOverrides /\ UNCHANGED otherThanParams
    \/ LoadOverrides /\ UNCHANGED otherThanParams

SpecRoundTrip == InitRoundTrip /\ [][NextRoundTrip]_vars

(* One detect call on a bounded candle frame under a bounded override store *)
Detect ==
    /\ pc = "detect"
    /\ patterns' = detect(overrides, df, DETECT_SYMBOL, DETECT_TIMEFRAME)
    /\ pc' = "detected"
    /\ UNCHANGED df

InitDetect ==
    /\ overrides \in DetectStores
    /\ config_file = save_overrides(NoFile, overrides)
    /\ ret = NoCall
    /\ df \in DetectFrames
    /\ patterns = Ok(<<>>)
    /\ pc = "detect"
    /\ candles = <<>>
    /\ i = 0
    /\ capital = initial_capital
    /\ trades = <<>>
    /\ active_trades = <<>>
    /\ equity_curve = <<>>
    /\ result = ReturnNone
    /\ IdleStore

NextDetect ==
    /\ Detect
    /\ UNCHANGED paramVars
    /\ UNCHANGED engineVars
    /\ UNCHANGED storeVars

SpecDetect == InitDetect /\ [][NextDetect]_vars

(* Backtest runs of one engine instance under the default parameters *)
InitBacktest ==
    /\ IdleParams
    /\ IdleDetect
    /\ IdleEngine
    /\ IdleStore

otherThanEngine == <<overrides, config_file, ret, df, patterns, db_patterns, clock, called,
                     db_signals>>

NextBacktest ==
    \/ BacktestReset /\ UNCHANGED otherThanEngine
    \/ /\ pc = "reset"
       /\ \E series \in BacktestSeries : BacktestLoad(series)
       /\ UNCHANGED otherThanEngine
    \/ BacktestStep /\ UNCHANGED otherThanEngine
    \/ BacktestFinish /\ UNCHANGED otherThanEngine

SpecBacktest == InitBacktest /\ [][NextBacktest]_vars

-----------------------------------------------------------------------------
(* Properties of the parameter store, checked under SpecParams *)

\* the override documents that apply to a (symbol, timeframe) pair
HasTfLevel(store, tf) ==
    /\ tf # NONE
    /\ "timeframes" \in DOMAIN store
    /\ tf \in DOMAIN store.timeframes

HasSymbolDefault(store, s) ==
    /\ s # NONE
    /\ "symbols" \in DOMAIN store
    /\ s \in DOMAIN store.symbols
    /\ "default" \in DOMAIN store.symbols[s]

HasSymbolTf(store, s, tf) ==
    /\ s # NONE
    /\ tf # NONE
    /\ "symbols" \in DOMAIN store
    /\ s \in DOMAIN store.symbols
    /\ "timeframes" \in DOMAIN store.symbols[s]
    /\ tf \in DOMAIN store.symbols[s].timeframes

Names(doc, group, field) == group \in DOMAIN doc /\ field \in DOMAIN doc[group]

\* the value precedence gives a field: symbol+timeframe, else symbol default,
\* else timeframe level, else the global default
ByPrecedence(store, s, tf, group, field) ==
    IF HasSymbolTf(store, s, tf) /\ Names(store.symbols[s].timeframes[tf], group, field)
    THEN store.symbols[s].timeframes[tf][group][field]
    ELSE IF HasSymbolDefault(store, s) /\ Names(store.symbols[s].default, group, field)
    THEN store.symbols[s].default[group][field]
    ELSE IF HasTfLevel(store, tf) /\ Names(store.timeframes[tf], group, field)
    THEN store.timeframes[tf][group][field]
    ELSE get_default_parameters[group][field]

NoOverrideApplies(store, s, tf) ==
    /\ ~HasTfLevel(store, tf)
    /\ ~HasSymbolDefault(store, s)
    /\ ~HasSymbolTf(store, s, tf)

\* a document the dataclass constructors reject
InvalidDoc(doc) == _merge_parameters(get_default_parameters, doc).err # "none"

\* C1: a resolution that returns gives every field the value of the most
\* specific level naming it: the symbol+timeframe override, else the symbol
\* default override, else the timeframe-level override, else the global default.
C1_OverridePrecedence ==
    (ret.op = "get_parameters" /\ ret.out.err = "none") =>
        \A group \in {"risk", "fvg"} :
            \A field \in DOMAIN get_default_parameters[group] :
                ret.out.value[group][field] =
                    ByPrecedence(overrides, ret.symbol, ret.timeframe, group, field)

\* a resolution with min_gap_percent set to three different values at the
\* three levels, and a timeframe-level field no other level names
C1_ThreeLevelsResolved ==
    /\ ret.op = "get_parameters"
    /\ ret.out.err = "none"
    /\ HasTfLevel(overrides, ret.timeframe)
    /\ HasSymbolDefault(overrides, ret.symbol)
    /\ HasSymbolTf(overrides, ret.symbol, ret.timeframe)
    /\ overrides.timeframes[ret.timeframe] = DocTf
    /\ overrides.symbols[ret.symbol].default = DocSym
    /\ overrides.symbols[ret.symbol].timeframes[ret.timeframe] = DocSymTf
    /\ ret.out.value.fvg.min_gap_percent = R(3, 10)
    /\ ret.out.value.fvg.max_age_candles = 20
    /\ ret.out.value.risk.take_profit_rr_ratio = R(3, 1)

\* C2: every resolution returns a parameter set without raising, and returns
\* the global defaults when no override applies to the pair.
C2_ResolutionNeverFails ==
    ret.op = "get_parameters" =>
        /\ ret.out.err = "none"
        /\ ~ret.out.none
        /\ NoOverrideApplies(overrides, ret.symbol, ret.timeframe) =>
               ret.out.value = get_default_parameters

\* C3: a set operation given a document with an unexpected field raises to its
\* caller and leaves the in-memory override store as it was.
C3_InvalidOverrideRejected ==
    [][(/\ ret'.op \in {"set_symbol_parameters", "set_timeframe_parameters"}
        /\ InvalidDoc(ret'.parameters))
       => (ret'.out.err # "none" /\ overrides' = overrides)]_vars

-----------------------------------------------------------------------------
(* Properties of the detector, checked under SpecDetect *)

\* the patterns of one direction detect returned for the triple ending at index j
Emitted(direction, j) ==
    {k \in 1..Len(patterns.value) :
        /\ patterns.value[k].direction = direction
        /\ patterns.value[k].start_timestamp = Iloc(df, j).timestamp}

Resolved == get_parameters(overrides, DETECT_SYMBOL, DETECT_TIMEFRAME).value

VolumeRule(j) ==
    Resolved.fvg.volume_confirmation => Gt(Iloc(df, j).volume, Iloc(df, j - 1).volume)

BullishConditions(j) ==
    LET gap_bottom == Iloc(df, j - 2).high
        gap_top == Iloc(df, j).low
    IN  /\ Lt(gap_bottom, gap_top)
        /\ Gt(Iloc(df, j).close, Iloc(df, j).open)
        /\ Ge(Mul(Div(Sub(gap_top, gap_bottom), gap_bottom), Int2R(100)),
              Resolved.fvg.min_gap_percent)
        /\ VolumeRule(j)

BearishConditions(j) ==
    LET gap_top == Iloc(df, j - 2).low
        gap_bottom == Iloc(df, j).high
    IN  /\ Gt(gap_top, gap_bottom)
        /\ Lt(Iloc(df, j).close, Iloc(df, j).open)
        /\ Ge(Mul(Div(Sub(gap_top, gap_bottom), gap_top), Int2R(100)),
              Resolved.fvg.min_gap_percent)
        /\ VolumeRule(j)

Midpoint(a, b) == Div(Add(a, b), Int2R(2))

\* C9: every pattern detect returns has gap_top above gap_bottom and its entry
\* price strictly between them, at the midpoint, whatever its direction.
C9_GapOrdered ==
    patterns.err = "none" =>
        \A k \in 1..Len(patterns.value) :
            LET p == patterns.value[k]
            IN  /\ Gt(p.gap_top, p.gap_bottom)
                /\ Lt(p.gap_bottom, p.entry_price)
                /\ Lt(p.entry_price, p.gap_top)
                /\ p.entry_price = Midpoint(p.gap_bottom, p.gap_top)

\* a detect call that returned a bullish and a bearish pattern
C9_BothDirectionsDetected ==
    /\ pc = "detected"
    /\ patterns.err = "none"
    /\ \E k \in 1..Len(patterns.value) : patterns.value[k].direction = "bullish"
    /\ \E k \in 1..Len(patterns.value) : patterns.value[k].direction = "bearish"

\* C10: for every index j >= 2 a detect call that returns emits one bullish
\* pattern for the triple ending at j exactly when the bullish conditions hold
\* and one bearish pattern exactly when the mirrored conditions hold, and it
\* emits nothing else.
C10_EmitsExactlyOnConditions ==
    (pc = "detected" /\ patterns.err = "none") =>
        /\ \A j \in 2..(Len(df) - 1) :
               /\ Cardinality(Emitted("bullish", j)) =
                      (IF BullishConditions(j) THEN 1 ELSE 0)
               /\ Cardinality(Emitted("bearish", j)) =
                      (IF BearishConditions(j) THEN 1 ELSE 0)
        /\ \A k \in 1..Len(patterns.value) :
               \E j \in 2..(Len(df) - 1) :
                   /\ patterns.value[k].direction \in {"bullish", "bearish"}
                   /\ k \in Emitted(patterns.value[k].direction, j)

\* a detect call under a 4.1 percent threshold that emitted for one triple and
\* stayed silent on a 4 percent bearish gap
C10_EmittedAndRejected ==
    /\ pc = "detected"
    /\ patterns.err = "none"
    /\ Len(df) >= 3
    /\ Resolved.fvg.min_gap_percent = R(41, 10)
    /\ Len(patterns.value) > 0
    /\ \E j \in 2..(Len(df) - 1) :
           /\ Gt(Iloc(df, j - 2).low, Iloc(df, j).high)
           /\ Lt(Iloc(df, j).close, Iloc(df, j).open)
           /\ Gt(Iloc(df, j).volume, Iloc(df, j - 1).volume)
           /\ Emitted("bearish", j) = {}

-----------------------------------------------------------------------------
(* Properties of the backtest engine, checked under SpecBacktest *)

\* a finished run over enough candles
RunCompleted == pc = "returned" /\ Len(candles) >= MIN_CANDLES

\* the patterns of the whole series
SeriesPatterns == detect(overrides, candles, BT_SYMBOL, BT_TIMEFRAME).value

\* the window of the loop iteration at index j
WindowAt(j) == SubSeq(candles, (IF j - WINDOW_SIZE > 0 THEN j - WINDOW_SIZE ELSE 0) + 1, j + 1)

\* C4: a run over at least 100 candles in which no gap qualifies completes
\* with a report of 0 trades, final capital equal to the initial capital and
\* a max_drawdown of 0.
C4_NoGapReport ==
    (RunCompleted /\ Len(SeriesPatterns) = 0) =>
        /\ result.err = "none"
        /\ ~result.none
        /\ result.value.total_trades = 0
        /\ result.value.final_capital = initial_capital
        /\ result.value.max_drawdown = Zero

\* the series holds one pattern, a bullish one; some later candle touches its
\* entry, and from then on a low reaches the stop with no high at the target
\* up to that candle
OneBullishGapStopFirst ==
    /\ Len(SeriesPatterns) = 1
    /\ LET p == SeriesPatterns[1]
           last == Len(candles) - 1
           touched == {j \in (p.start_timestamp + 1)..last :
                          Le(Iloc(candles, j).low, p.entry_price)}
       IN  /\ p.direction = "bullish"
           /\ Lt(p.stop_loss, p.entry_price)
           /\ Lt(p.entry_price, p.take_profit)
           /\ \E e \in touched :
                  /\ \A j \in touched : e <= j
                  /\ \E x \in e..last :
                         /\ Le(Iloc(candles, x).low, p.stop_loss)
                         /\ \A j \in e..x :
                                Lt(Iloc(candles, j).high, p.take_profit)

\* C5: a run over a series with one clean bullish gap whose stop is reached
\* before its target, after the entry was touched, ends with exactly one trade
\* in the ledger, closed by stop_loss at a loss.
C5_OneLosingStop ==
    (RunCompleted /\ OneBullishGapStopFirst) =>
        /\ Len(trades) = 1
        /\ trades[1].exit_reason = "stop_loss"
        /\ Lt(trades[1].pnl, Zero)

\* C6: at most one trade is open after every step, and no trade was opened
\* while another was open: the holding periods in the ledger follow one
\* another, and the open trade was entered after every closed one had exited.
C6_SinglePosition ==
    /\ Len(active_trades) <= 1
    /\ \A k \in 1..Len(trades) : \A m \in 1..Len(trades) :
           k < m => trades[k].exit_time < trades[m].entry_time
    /\ \A k \in 1..Len(trades) : \A m \in 1..Len(active_trades) :
           trades[k].exit_time < active_trades[m].entry_time

\* a step that found the entry of the latest pattern touched while the trade
\* entered on an earlier candle was still open
C6_EntryTouchedWhileOpen ==
    /\ pc = "loop"
    /\ i > WINDOW_SIZE
    /\ Len(active_trades) = 1
    /\ active_trades[1].entry_time < i - 1
    /\ LET found == detect(overrides, WindowAt(i - 1), BT_SYMBOL, BT_TIMEFRAME).value
       IN  /\ Len(found) > 0
           /\ ShouldEnterWhileOpen(active_trades, found[Len(found)], Iloc(candles, i - 1))

\* C7: a run over fewer than 100 candles returns None without raising and
\* leaves the capital at the initial capital, the ledger and the equity curve
\* empty.
C7_ShortRunClean ==
    (pc = "returned" /\ Len(candles) < MIN_CANDLES) =>
        /\ result = ReturnNone
        /\ capital = initial_capital
        /\ trades = <<>>
        /\ equity_curve = <<>>
        /\ active_trades = <<>>

\* a run over 99 candles that returned
C7_NinetyNineCandles ==
    /\ pc = "returned"
    /\ Len(candles) = MIN_CANDLES - 1
    /\ result.none
    /\ result.err = "none"

\* C8: the max_drawdown of every report is a percentage from 0 to 100.
C8_DrawdownIsPercentage ==
    (pc = "returned" /\ result.err = "none" /\ ~result.none) =>
        /\ Ge(result.value.max_drawdown, Zero)
        /\ Le(result.value.max_drawdown, Int2R(100))

-----------------------------------------------------------------------------
(* src/data/storage.py, src/patterns/base.py, src/patterns/detector.py:    *)
(* the stored patterns and their validity. Datetimes are whole minutes.    *)

\* Settings.get_timeframe_minutes: the length of a candle in minutes
get_timeframe_minutes(timeframe) ==
    CASE timeframe = "1m" -> 1
      [] timeframe = "5m" -> 5
      [] timeframe = "15m" -> 15
      [] timeframe = "30m" -> 30
      [] timeframe = "1h" -> 60
      [] timeframe = "4h" -> 240
      [] timeframe = "1d" -> 1440
      [] timeframe = "1w" -> 10080
      [] OTHER -> 1

\* a column that holds NULL
NoTime == 0 - 1

\* the row save_pattern inserts for a detected pattern: the next id, the
\* column defaults
PatternRow(id, pattern) ==
    [id |-> id, symbol |-> pattern.symbol, timeframe |-> pattern.timeframe,
     pattern_type |-> pattern.pattern_type, direction |-> pattern.direction,
     start_timestamp |-> pattern.start_timestamp,
     entry_price |-> pattern.entry_price, stop_loss |-> pattern.stop_loss,
     take_profit |-> pattern.take_profit, gap_top |-> pattern.gap_top,
     gap_bottom |-> pattern.gap_bottom,
     gap_size_percent |-> pattern.gap_size_percent,
     is_valid |-> pattern.is_valid, filled_timestamp |-> NoTime]

save_pattern(table, pattern) == Append(table, PatternRow(Len(table) + 1, pattern))

\* pattern.is_valid = False, pattern.filled_timestamp = filled_timestamp on the
\* row with this id, if there is one
invalidate_pattern(table, pattern_id, filled_timestamp) ==
    [k \in 1..Len(table) |->
        IF table[k].id = pattern_id
        THEN [table[k] EXCEPT !.is_valid = FALSE,
                              !.filled_timestamp = filled_timestamp]
        ELSE table[k]]

\* the ids of the rows the query of get_valid_patterns selects
ValidIds(table, symbol, pattern_type, timeframe) ==
    {k \in 1..Len(table) :
        /\ table[k].is_valid
        /\ symbol # NONE => table[k].symbol = symbol
        /\ pattern_type # NONE => table[k].pattern_type = pattern_type
        /\ timeframe # NONE => table[k].timeframe = timeframe}

RECURSIVE OrderDesc(_, _)
\* order_by(start_timestamp.desc()): rows of equal timestamp in id order
OrderDesc(table, ids) ==
    IF ids = {} THEN <<>>
    ELSE LET first == CHOOSE k \in ids :
                          \A m \in ids :
                              \/ table[m].start_timestamp < table[k].start_timestamp
                              \/ /\ table[m].start_timestamp = table[k].start_timestamp
                                 /\ k <= m
         IN  <<table[first]>> \o OrderDesc(table, ids \ {first})

get_valid_patterns(table, symbol, pattern_type, timeframe) ==
    OrderDesc(table, ValidIds(table, symbol, pattern_type, timeframe))

\* FVGPattern._validate_pattern_specific: False once the gap is filled
_validate_pattern_specific(pattern, current_price) ==
    IF pattern.direction = "bullish"
    THEN ~Le(current_price, pattern.gap_bottom)
    ELSE ~Ge(current_price, pattern.gap_top)

\* a validity check that reads the price and the age only
is_pattern_valid_ignoring_flag(self_overrides, pattern, current_price, current_timestamp) ==
    LET params == get_parameters(self_overrides, pattern.symbol, pattern.timeframe)
        age_candles == current_timestamp - pattern.start_timestamp
    IN  IF params.err # "none" THEN Raise(params.err)
        ELSE IF pattern.pattern_type = "fvg"
                /\ age_candles > params.value.fvg.max_age_candles
        THEN Ok(FALSE)
        ELSE Ok(_validate_pattern_specific(pattern, current_price))

\* BasePattern.is_pattern_valid: total_seconds() / 60 is the age in minutes
is_pattern_valid(self_overrides, pattern, current_price, current_timestamp) ==
    IF ~pattern.is_valid THEN Ok(FALSE)
    ELSE LET params == get_parameters(self_overrides, pattern.symbol, pattern.timeframe)
             age_candles == current_timestamp - pattern.start_timestamp
         IN  IF params.err # "none" THEN Raise(params.err)
             ELSE IF pattern.pattern_type = "fvg"
                     /\ age_candles > params.value.fvg.max_age_candles
             THEN Ok(FALSE)
             ELSE Ok(_validate_pattern_specific(pattern, current_price))

RECURSIVE UpdateLoop(_, _, _, _, _, _)
\* "for pattern in valid_patterns": the table after the loop, and the
\* exception that ended it, if any
UpdateLoop(self_overrides, valid_patterns, k, table, current_price, current_timestamp) ==
    IF k > Len(valid_patterns) THEN [table |-> table, err |-> "none"]
    ELSE LET pattern == valid_patterns[k]
             is_valid == is_pattern_valid(self_overrides, pattern, current_price,
                                          current_timestamp)
         IN  IF pattern.pattern_type # "fvg"
             THEN UpdateLoop(self_overrides, valid_patterns, k + 1, table,
                             current_price, current_timestamp)
             ELSE IF is_valid.err # "none"
             THEN [table |-> table, err |-> is_valid.err]
             ELSE IF ~is_valid.value
             THEN UpdateLoop(self_overrides, valid_patterns, k + 1,
                             invalidate_pattern(table, pattern.id, current_timestamp),
                             current_price, current_timestamp)
             ELSE UpdateLoop(self_overrides, valid_patterns, k + 1, table,
                             current_price, current_timestamp)

update_pattern_validity(self_overrides, table, symbol, current_price, current_timestamp) ==
    UpdateLoop(self_overrides, get_valid_patterns(table, symbol, NONE, NONE), 1,
               table, current_price, current_timestamp)

\* PatternDetector.detect_patterns saving a detected pattern (a detection run
\* over the same candles saves the same pattern again, as a new row)
SavePattern(pattern) ==
    /\ db_patterns' = save_pattern(db_patterns, pattern)
    /\ called' = [op |-> "save_pattern"]
    /\ UNCHANGED <<clock, db_signals>>

\* detector.is_pattern_valid on a stored row
IsPatternValid(k, current_price, current_timestamp) ==
    /\ called' = [op |-> "is_pattern_valid",
                  pattern |-> db_patterns[k],
                  current_price |-> current_price,
                  current_timestamp |-> current_timestamp,
                  out |-> is_pattern_valid(overrides, db_patterns[k], current_price,
                                           current_timestamp)]
    /\ UNCHANGED <<db_patterns, clock, db_signals>>

UpdatePatternValidity(symbol, current_price, current_timestamp) ==
    \E done \in {update_pattern_validity(overrides, db_patterns, symbol,
                                         current_price, current_timestamp)} :
        /\ db_patterns' = done.table
        /\ called' = [op |-> "update_pattern_validity", err |-> done.err]
        /\ UNCHANGED <<clock, db_signals>>

InvalidatePattern(pattern_id, filled_timestamp) ==
    /\ db_patterns' = invalidate_pattern(db_patterns, pattern_id, filled_timestamp)
    /\ called' = [op |-> "invalidate_pattern"]
    /\ UNCHANGED <<clock, db_signals>>
-----------------------------------------------------------------------------
(* src/analysis/confluence.py: ConfluenceAnalyzer *)

MIN_TIMEFRAME_CONFLUENCE == 3
LOOKBACK_HOURS == 24
TIMEFRAMES == <<"1m", "5m", "15m", "1h", "4h", "1d">>
timeframe_order == <<"1m", "5m", "15m", "30m", "1h", "4h", "1d", "1w">>

\* a choice of the first timeframe of the list, whatever its place in the order
_get_first_timeframe(timeframes) ==
    timeframes[1]

\* the last timeframe of the canonical order that is in the list, else the
\* first of the list
_get_highest_timeframe(timeframes) ==
    LET present == {k \in 1..Len(timeframe_order) :
                       \E j \in 1..Len(timeframes) : timeframes[j] = timeframe_order[k]}
    IN  IF present = {} THEN timeframes[1]
        ELSE timeframe_order[CHOOSE k \in present : \A m \in present : m <= k]

\* [p for p in patterns if p.direction == direction]
MatchingPatterns(patterns_of_timeframe, direction) ==
    LET Matches(p) == p.direction = direction
    IN  SelectSeq(patterns_of_timeframe, Matches)

\* a choice of the oldest matching pattern of a timeframe
Oldest(matching_patterns) ==
    matching_patterns[
        CHOOSE k \in 1..Len(matching_patterns) :
            \A m \in 1..Len(matching_patterns) :
                \/ matching_patterns[m].start_timestamp > matching_patterns[k].start_timestamp
                \/ /\ matching_patterns[m].start_timestamp = matching_patterns[k].start_timestamp
                   /\ k <= m]

\* max(matching_patterns, key=start_timestamp): the first of the largest
MostRecent(matching_patterns) ==
    matching_patterns[
        CHOOSE k \in 1..Len(matching_patterns) :
            \A m \in 1..Len(matching_patterns) :
                \/ matching_patterns[m].start_timestamp < matching_patterns[k].start_timestamp
                \/ /\ matching_patterns[m].start_timestamp = matching_patterns[k].start_timestamp
                   /\ k <= m]

\* the Signal of one direction as a one-element list, the empty list for None,
\* or the ZeroDivisionError of the risk-reward ratio; patterns_by_timeframe
\* holds the patterns of timeframes[k] at position k
_find_confluence_signal(min_confluence, symbol, timeframes, patterns_by_timeframe, direction) ==
    LET HasMatch(k) == Len(MatchingPatterns(patterns_by_timeframe[k], direction)) > 0
        confluent == SelectSeq([k \in 1..Len(timeframes) |-> k], HasMatch)
        confluent_timeframes == [j \in 1..Len(confluent) |-> timeframes[confluent[j]]]
        confluent_patterns ==
            [j \in 1..Len(confluent) |->
                MostRecent(MatchingPatterns(patterns_by_timeframe[confluent[j]], direction))]
        confluence_count == Len(confluent_timeframes)
        primary_timeframe == _get_highest_timeframe(confluent_timeframes)
        primary_pattern ==
            confluent_patterns[CHOOSE j \in 1..Len(confluent_patterns) :
                /\ confluent_patterns[j].timeframe = primary_timeframe
                /\ \A m \in 1..(j - 1) :
                       confluent_patterns[m].timeframe # primary_timeframe]
        avg_entry == Div(SumR([j \in 1..Len(confluent_patterns) |->
                                  confluent_patterns[j].entry_price],
                              1, Len(confluent_patterns)),
                         Int2R(Len(confluent_patterns)))
        risk == AbsR(Sub(primary_pattern.entry_price, primary_pattern.stop_loss))
        reward == AbsR(Sub(primary_pattern.take_profit, primary_pattern.entry_price))
        stop_loss == IF direction = "bullish" THEN Sub(avg_entry, risk)
                     ELSE Add(avg_entry, risk)
        take_profit == IF direction = "bullish" THEN Add(avg_entry, reward)
                       ELSE Sub(avg_entry, reward)
    IN  IF confluence_count < min_confluence THEN Ok(<<>>)
        ELSE IF AbsR(Sub(avg_entry, stop_loss)) = Zero THEN Raise("ZeroDivisionError")
        ELSE Ok(<<[symbol |-> symbol,
                   direction |-> IF direction = "bullish" THEN "long" ELSE "short",
                   pattern_ids |-> [j \in 1..Len(confluent_patterns) |->
                                       confluent_patterns[j].id],
                   primary_timeframe |-> primary_timeframe,
                   confluence_count |-> confluence_count,
                   entry_price |-> avg_entry,
                   stop_loss |-> stop_loss,
                   take_profit |-> take_profit,
                   risk_reward_ratio |-> Div(AbsR(Sub(take_profit, avg_entry)),
                                             AbsR(Sub(avg_entry, stop_loss))),
                   position_size_percent |-> POSITION_SIZE_PERCENT,
                   risk_amount_percent |-> MAX_RISK_PERCENT,
                   status |-> "active",
                   notified |-> FALSE]>>)

\* the valid patterns of a timeframe, whenever they started
PatternsOfAnyAge(table, symbol, pattern_type, timeframe, cutoff_time) ==
    get_valid_patterns(table, symbol, pattern_type, timeframe)

\* the valid patterns of a timeframe that started at or after the cutoff
RecentPatterns(table, symbol, pattern_type, timeframe, cutoff_time) ==
    LET Recent(p) == p.start_timestamp >= cutoff_time
    IN  SelectSeq(get_valid_patterns(table, symbol, pattern_type, timeframe), Recent)

\* ConfluenceAnalyzer.analyze_confluence at time utcnow: the list of signals,
\* or the exception raised; the confluence tags it writes on the fetched
\* pattern objects reach no table
analyze_confluence(min_confluence, table, utcnow, symbol, timeframes, pattern_type, lookback_hours) ==
    LET cutoff_time == utcnow - lookback_hours * 60
        patterns_by_timeframe ==
            [k \in 1..Len(timeframes) |->
                RecentPatterns(table, symbol, pattern_type, timeframes[k], cutoff_time)]
        bullish_signal == _find_confluence_signal(min_confluence, symbol, timeframes,
                                                  patterns_by_timeframe, "bullish")
        bearish_signal == _find_confluence_signal(min_confluence, symbol, timeframes,
                                                  patterns_by_timeframe, "bearish")
    IN  IF bullish_signal.err # "none" THEN bullish_signal
        ELSE IF bearish_signal.err # "none" THEN bearish_signal
        ELSE Ok(bullish_signal.value \o bearish_signal.value)

\* analyze_confluence(symbol, timeframes) with the default type and lookback;
\* an empty list of timeframes stands for the default, settings.TIMEFRAMES
AnalyzeConfluence(symbol, timeframes) ==
    /\ called' = [op |-> "analyze_confluence",
                  symbol |-> symbol,
                  timeframes |-> IF timeframes = <<>> THEN TIMEFRAMES ELSE timeframes,
                  out |-> analyze_confluence(MIN_TIMEFRAME_CONFLUENCE, db_patterns, clock,
                                             symbol,
                                             IF timeframes = <<>> THEN TIMEFRAMES
                                             ELSE timeframes,
                                             "fvg", LOOKBACK_HOURS)]
    /\ UNCHANGED <<db_patterns, clock, db_signals>>

\* the inputs of the validity operations: one bullish and one bearish gap per
\* timeframe, found at minute 0
StoredBullish(timeframe, start) ==
    Pattern("BTC/USDT", timeframe, "bullish", start, Int2R(102), Int2R(97),
            Int2R(112), Int2R(104), Int2R(100), Int2R(4))

StoredBearish(timeframe, start) ==
    Pattern("BTC/USDT", timeframe, "bearish", start, Int2R(98), Int2R(103),
            Int2R(88), Int2R(100), Int2R(96), Int2R(4))

ValidityTimeframes == {"1m", "5m"}
ValidityPatterns ==
    {StoredBullish(tf, 0) : tf \in ValidityTimeframes}
    \cup {StoredBearish(tf, 0) : tf \in ValidityTimeframes}
ValidityPrices == {Int2R(95), Int2R(105)}
\* one minute before and after 50 candles of each timeframe
ValidityTimes ==
    UNION {{FVG_MAX_AGE_CANDLES * get_timeframe_minutes(tf),
            FVG_MAX_AGE_CANDLES * get_timeframe_minutes(tf) + 1} :
              tf \in ValidityTimeframes}
MaxStored == 2

otherThanStore == <<overrides, config_file, ret, df, patterns, pc, candles, i,
                    capital, trades, active_trades, equity_curve, result>>

(* Stored patterns under the default parameters: saving, checking, updating *)
(* and invalidating                                                         *)
InitValidity ==
    /\ IdleParams
    /\ IdleDetect
    /\ IdleEngine
    /\ IdleStore

NextValidity ==
    \/ /\ Len(db_patterns) < MaxStored
       /\ \E p \in ValidityPatterns : SavePattern(p)
       /\ UNCHANGED otherThanStore
    \/ \E k \in 1..Len(db_patterns), price \in ValidityPrices, t \in ValidityTimes :
           IsPatternValid(k, price, t) /\ UNCHANGED otherThanStore
    \/ \E symbol \in {"BTC/USDT", "ETH/USDT"}, price \in ValidityPrices,
          t \in ValidityTimes :
           UpdatePatternValidity(symbol, price, t) /\ UNCHANGED otherThanStore
    \/ \E id \in 1..MaxStored :
           InvalidatePattern(id, FVG_MAX_AGE_CANDLES) /\ UNCHANGED otherThanStore
    \/ AnalyzeConfluence("BTC/USDT", <<>>) /\ UNCHANGED otherThanStore

SpecValidity == InitValidity /\ [][NextValidity]_vars

\* stored patterns for the confluence analysis: one recent pattern of each
\* direction on three timeframes and an older one on the hourly timeframe,
\* every one with its own entry price and its own distance to the stop, the
\* target three distances away
ConfluentBullish(timeframe, start, entry, risk) ==
    Pattern("BTC/USDT", timeframe, "bullish", start, Int2R(entry), Int2R(entry - risk),
            Int2R(entry + 3 * risk), Int2R(entry + 2), Int2R(entry - 2), Int2R(4))

ConfluentBearish(timeframe, start, entry, risk) ==
    Pattern("BTC/USDT", timeframe, "bearish", start, Int2R(entry), Int2R(entry + risk),
            Int2R(entry - 3 * risk), Int2R(entry + 2), Int2R(entry - 2), Int2R(4))

ConfluencePatterns ==
    <<ConfluentBullish("1h", 0, 90, 3), ConfluentBearish("1h", 0, 99, 3),
      ConfluentBullish("1m", 100, 102, 1), ConfluentBullish("1h", 100, 105, 5),
      ConfluentBullish("4h", 100, 110, 7), ConfluentBearish("1m", 100, 98, 1),
      ConfluentBearish("1h", 100, 95, 5), ConfluentBearish("4h", 100, 91, 7)>>

\* the lists of timeframes passed to an analysis: the default, and the three
\* timeframes of the patterns with the coarsest first
ConfluenceTimeframeLists == {<<>>, <<"4h", "1m", "1h">>}

\* the times of analysis: the older patterns are exactly on the cutoff of the
\* first and before the cutoff of the second, which has the recent ones on it
ConfluenceClocks == {LOOKBACK_HOURS * 60, LOOKBACK_HOURS * 60 + 100}
MaxConfluent == 6

\* the table after save_pattern of the chosen candidates, in their order
RECURSIVE SaveAll(_, _, _, _)
SaveAll(candidates, table, chosen, k) ==
    IF k > Len(candidates) THEN table
    ELSE IF k \in chosen
         THEN SaveAll(candidates, save_pattern(table, candidates[k]), chosen, k + 1)
    ELSE SaveAll(candidates, table, chosen, k + 1)

InitConfluence ==
    /\ IdleParams
    /\ IdleDetect
    /\ IdleEngine
    /\ \E chosen \in SUBSET (1..Len(ConfluencePatterns)) :
           /\ Cardinality(chosen) <= MaxConfluent
           /\ db_patterns = SaveAll(ConfluencePatterns, <<>>, chosen, 1)
    /\ clock \in ConfluenceClocks
    /\ called = [op |-> "none"]
    /\ db_signals = <<>>

NextConfluence ==
    \/ \E id \in 1..Len(db_patterns) :
           InvalidatePattern(id, clock) /\ UNCHANGED otherThanStore
    \/ \E symbol \in {"BTC/USDT", "ETH/USDT"}, timeframes \in ConfluenceTimeframeLists :
           AnalyzeConfluence(symbol, timeframes) /\ UNCHANGED otherThanStore

SpecConfluence == InitConfluence /\ [][NextConfluence]_vars

\* stored patterns for the levels of a signal: recent patterns of each
\* direction on three or four timeframes, the coarsest of each direction
\* with its stop and target on its entry (a stop multiplier of minus half
\* the gap over the ATR puts the stop of a detected pattern there)
LevelPatterns ==
    <<ConfluentBullish("1m", 100, 102, 1), ConfluentBullish("1h", 100, 105, 5),
      ConfluentBullish("4h", 100, 110, 7), ConfluentBullish("1d", 100, 112, 0),
      ConfluentBearish("1m", 100, 98, 1), ConfluentBearish("1h", 100, 95, 5),
      ConfluentBearish("4h", 100, 91, 0)>>

InitLevels ==
    /\ IdleParams
    /\ IdleDetect
    /\ IdleEngine
    /\ \E chosen \in SUBSET (1..Len(LevelPatterns)) :
           db_patterns = SaveAll(LevelPatterns, <<>>, chosen, 1)
    /\ clock \in ConfluenceClocks
    /\ called = [op |-> "none"]
    /\ db_signals = <<>>

SpecLevels == InitLevels /\ [][NextConfluence]_vars

\* _enter_trade, _check_exit and _close_trade applied to bounded patterns and
\* candles: an engine with some capital enters a pattern at its entry price,
\* then runs its exit check on candles until the trade closes
EnterTrade(pattern) ==
    /\ active_trades = <<>>
    /\ active_trades' = <<_enter_trade(capital, pattern, pattern.entry_price, Len(trades))>>
    /\ UNCHANGED <<pc, candles, i, capital, trades, equity_curve, result>>

CheckExit(candle) ==
    /\ active_trades # <<>>
    /\ \E after \in {ExitLoop(active_trades, 1, candle, capital, trades, <<>>)} :
           /\ capital' = after.capital
           /\ trades' = after.trades
           /\ active_trades' = after.active
    /\ UNCHANGED <<pc, candles, i, equity_curve, result>>

SizingPattern(direction, stop_loss, take_profit) ==
    Pattern("BTC/USDT", "1m", direction, 0, Int2R(100), stop_loss, take_profit,
            Int2R(102), Int2R(98), Int2R(4))

\* stops at 5, at a quarter and at no distance from the entry at 100
SizingPatterns ==
    {SizingPattern("bullish", Int2R(95), Int2R(110)),
     SizingPattern("bullish", R(399, 4), R(201, 2)),
     SizingPattern("bullish", Int2R(100), Int2R(100)),
     SizingPattern("bearish", Int2R(105), Int2R(90)),
     SizingPattern("bearish", Int2R(100), Int2R(100))}
SizingCandles ==
    {Candle(1, 100, 112, 100, 112, 10), Candle(1, 100, 100, 88, 88, 10),
     Candle(1, 101, 102, 101, 102, 10)}
SizingCapitals == {Int2R(10000), Int2R(100)}
MaxClosed == 2

InitSizing ==
    /\ IdleParams
    /\ IdleDetect
    /\ IdleStore
    /\ pc = "idle"
    /\ candles = <<>>
    /\ i = 0
    /\ capital \in SizingCapitals
    /\ trades = <<>>
    /\ active_trades = <<>>
    /\ equity_curve = <<>>
    /\ result = ReturnNone

NextSizing ==
    \/ /\ Len(trades) < MaxClosed
       /\ \E pattern \in SizingPatterns : EnterTrade(pattern)
       /\ UNCHANGED otherThanEngine
    \/ \E candle \in SizingCandles : CheckExit(candle) /\ UNCHANGED otherThanEngine

SpecSizing == InitSizing /\ [][NextSizing]_vars

-----------------------------------------------------------------------------
(* Batch scans: PatternDetector.scan_all_symbols and
   ConfluenceAnalyzer.scan_all_symbols_for_confluence *)

SYMBOLS == <<"BTC/USDT", "ETH/USDT">>

RECURSIVE SaveEach(_, _, _)
\* for pattern in all_patterns: db_manager.save_pattern(pattern)
SaveEach(table, all_patterns, k) ==
    IF k > Len(all_patterns) THEN table
    ELSE SaveEach(save_pattern(table, all_patterns[k]), all_patterns, k + 1)

\* detect_patterns with save_to_db: the table after it and the patterns it
\* returns, or the exception of a database read that fails; an exception of
\* the detector is caught inside and leaves no patterns
detect_patterns(self_overrides, table, frame, fails, symbol, timeframe) ==
    IF fails THEN [table |-> table, out |-> Raise("OperationalError")]
    ELSE IF Len(frame) < 3 THEN [table |-> table, out |-> Ok(<<>>)]
    ELSE CHOOSE after \in
             {[table |-> SaveEach(table, all_patterns, 1), out |-> Ok(all_patterns)] :
                 all_patterns \in {IF detected.err = "none" THEN detected.value ELSE <<>> :
                     detected \in {detect(self_overrides, frame, symbol, timeframe)}}} : TRUE

\* the body of the timeframe loop with the exception leaving the loop
scan_timeframe_unguarded(acc, done, symbol, timeframe) ==
    IF done.out.err # "none"
    THEN [acc EXCEPT !.visited = Append(@, <<symbol, timeframe>>), !.err = done.out.err]
    ELSE [acc EXCEPT !.table = done.table,
                     !.symbol_patterns = @ \o done.out.value,
                     !.visited = Append(@, <<symbol, timeframe>>)]

\* the body of the timeframe loop: try detect_patterns, extend the symbol's
\* patterns; except Exception: print
scan_timeframe(acc, done, symbol, timeframe) ==
    IF done.out.err # "none"
    THEN [acc EXCEPT !.visited = Append(@, <<symbol, timeframe>>)]
    ELSE [acc EXCEPT !.table = done.table,
                     !.symbol_patterns = @ \o done.out.value,
                     !.visited = Append(@, <<symbol, timeframe>>)]

RECURSIVE ScanTimeframes(_, _, _, _, _, _, _)
\* for timeframe in timeframes; an exception that escapes the body ends it
ScanTimeframes(acc, self_overrides, frames, failing, symbol, timeframes, k) ==
    IF k > Len(timeframes) \/ acc.err # "none" THEN acc
    ELSE CHOOSE after \in
             {ScanTimeframes(next, self_overrides, frames, failing, symbol, timeframes, k + 1) :
                 next \in {scan_timeframe(acc, done, symbol, timeframes[k]) :
                     done \in {detect_patterns(self_overrides, acc.table, frames[symbol],
                                               <<symbol, timeframes[k]>> \in failing,
                                               symbol, timeframes[k])}}} : TRUE

RECURSIVE ScanSymbols(_, _, _, _, _, _, _)
\* for symbol in symbols: symbol_patterns = [], the timeframe loop,
\* results[symbol] = symbol_patterns
ScanSymbols(acc, self_overrides, frames, failing, symbols, timeframes, k) ==
    IF k > Len(symbols) \/ acc.err # "none" THEN acc
    ELSE CHOOSE after \in
             {ScanSymbols(IF inner.err # "none" THEN inner
                          ELSE [inner EXCEPT !.results =
                                                 Put(@, symbols[k], inner.symbol_patterns)],
                          self_overrides, frames, failing, symbols, timeframes, k + 1) :
                 inner \in {ScanTimeframes(start, self_overrides, frames, failing,
                                           symbols[k], timeframes, 1) :
                     start \in {[acc EXCEPT !.symbol_patterns = <<>>]}}} : TRUE

\* scan_all_symbols(symbols, timeframes) over candles frames[symbol], with the
\* database reads of the pairs in failing raising: the table, the results
\* dict, the pairs the loops reached in order, and the exception that left
\* the call, if any
scan_all_symbols(self_overrides, table, frames, failing, symbols, timeframes) ==
    ScanSymbols([table |-> table, results |-> EmptyDict, symbol_patterns |-> <<>>,
                 visited |-> <<>>, err |-> "none"],
                self_overrides, frames, failing,
                IF symbols = <<>> THEN SYMBOLS ELSE symbols,
                IF timeframes = <<>> THEN TIMEFRAMES ELSE timeframes, 1)

\* the signals table
SignalRow(id, signal) ==
    [f \in DOMAIN signal \cup {"id"} |-> IF f = "id" THEN id ELSE signal[f]]

save_signal(table, signal) == Append(table, SignalRow(Len(table) + 1, signal))

get_active_signals(table, symbol) ==
    LET Active(s) == s.status = "active" /\ s.symbol = symbol
    IN  SelectSeq(table, Active)

\* a choice that compares with the latest stored signal of the symbol alone
is_duplicate_of_latest(table, symbol, signal) ==
    /\ Len(get_active_signals(table, symbol)) > 0
    /\ LET s == get_active_signals(table, symbol)[Len(get_active_signals(table, symbol))]
       IN  /\ s.direction = signal.direction
           /\ Lt(Div(AbsR(Sub(s.entry_price, signal.entry_price)), signal.entry_price),
                 R(1, 100))

\* an active signal of the symbol with the same direction and an entry
\* within one percent
is_duplicate(table, symbol, signal) ==
    \E j \in 1..Len(get_active_signals(table, symbol)) :
        LET s == get_active_signals(table, symbol)[j]
        IN  /\ s.direction = signal.direction
            /\ Lt(Div(AbsR(Sub(s.entry_price, signal.entry_price)), signal.entry_price),
                  R(1, 100))

RECURSIVE SaveNewSignals(_, _, _, _)
SaveNewSignals(table, symbol, signals, k) ==
    IF k > Len(signals) THEN table
    ELSE SaveNewSignals(IF is_duplicate(table, symbol, signals[k]) THEN table
                        ELSE save_signal(table, signals[k]),
                        symbol, signals, k + 1)

\* the body of the symbol loop: try analyze_confluence, save the signals that
\* are new, results[symbol] = signals; except Exception: print
scan_symbol_for_confluence(acc, analysis, symbol) ==
    IF analysis.err # "none" THEN [acc EXCEPT !.visited = Append(@, symbol)]
    ELSE [acc EXCEPT !.table = SaveNewSignals(@, symbol, analysis.value, 1),
                     !.results = Put(@, symbol, analysis.value),
                     !.visited = Append(@, symbol)]

RECURSIVE ScanConfluence(_, _, _, _, _, _, _)
\* for symbol in symbols
ScanConfluence(acc, min_confluence, table, utcnow, failing, symbols, k) ==
    IF k > Len(symbols) THEN acc
    ELSE CHOOSE after \in
             {ScanConfluence(next, min_confluence, table, utcnow, failing, symbols, k + 1) :
                 next \in {scan_symbol_for_confluence(acc, analysis, symbols[k]) :
                     analysis \in {IF symbols[k] \in failing THEN Raise("OperationalError")
                                   ELSE analyze_confluence(min_confluence, table, utcnow,
                                                           symbols[k], TIMEFRAMES, "fvg",
                                                           LOOKBACK_HOURS)}}} : TRUE

\* scan_all_symbols_for_confluence(symbols) with save_to_db, the database
\* reads of the symbols in failing raising
scan_all_symbols_for_confluence(min_confluence, table, signals_table, utcnow, failing, symbols) ==
    ScanConfluence([table |-> signals_table, results |-> EmptyDict, visited |-> <<>>,
                    err |-> "none"],
                   min_confluence, table, utcnow, failing,
                   IF symbols = <<>> THEN SYMBOLS ELSE symbols, 1)

ScanAllSymbols(frames, failing, symbols, timeframes) ==
    \E done \in {scan_all_symbols(overrides, db_patterns, frames, failing, symbols,
                                   timeframes)} :
        /\ db_patterns' = done.table
        /\ called' = [op |-> "scan_all_symbols", symbols |-> symbols,
                      timeframes |-> timeframes, failing |-> failing,
                      results |-> done.results, visited |-> done.visited,
                      err |-> done.err]
        /\ UNCHANGED <<clock, db_signals>>

ScanAllSymbolsForConfluence(failing, symbols) ==
    \E done \in {scan_all_symbols_for_confluence(MIN_TIMEFRAME_CONFLUENCE, db_patterns,
                                                  db_signals, clock, failing, symbols)} :
        /\ db_signals' = done.table
        /\ called' = [op |-> "scan_all_symbols_for_confluence", symbols |-> symbols,
                      failing |-> failing, results |-> done.results,
                      visited |-> done.visited, err |-> done.err]
        /\ UNCHANGED <<db_patterns, clock>>

\* the candles table of the scans: a bullish gap after a warm-up for one
\* symbol, a bearish gap for another, two candles for a third
ScanCandles ==
    [symbol \in {"BTC/USDT", "ETH/USDT", "SOL/USDT"} |->
        IF symbol = "BTC/USDT" THEN Stamp(Repeat(DFlat, ATR_PERIOD) \o <<DFlat, DUp>>)
        ELSE IF symbol = "ETH/USDT" THEN Stamp(Repeat(DFlat, ATR_PERIOD) \o <<DFlat, DDown>>)
        ELSE Stamp(<<DFlat, DUp>>)]

ScanSymbolLists ==
    {<<>>, <<"BTC/USDT">>, <<"ETH/USDT", "BTC/USDT">>, <<"SOL/USDT", "BTC/USDT">>}
ScanTimeframeLists == {<<"1m">>, <<"1m", "1h", "4h">>}
ScanFailing == SUBSET {<<"BTC/USDT", "1h">>, <<"ETH/USDT", "1m">>}
ScanStores == {EmptyDict, SymbolStored(EmptyDict, "ETH/USDT", DocBad, NONE)}
MaxScanned == 1

InitScan ==
    /\ overrides \in ScanStores
    /\ config_file = save_overrides(NoFile, overrides)
    /\ ret = NoCall
    /\ IdleDetect
    /\ IdleEngine
    /\ IdleStore

NextScan ==
    \/ /\ Len(db_patterns) < MaxScanned
       /\ \E failing \in ScanFailing, symbols \in ScanSymbolLists,
             timeframes \in ScanTimeframeLists :
              ScanAllSymbols(ScanCandles, failing, symbols, timeframes)
       /\ UNCHANGED otherThanStore
    \/ \E failing \in SUBSET {"BTC/USDT", "ETH/USDT"}, symbols \in ScanSymbolLists :
           ScanAllSymbolsForConfluence(failing, symbols) /\ UNCHANGED otherThanStore

SpecScan == InitScan /\ [][NextScan]_vars

\* stored patterns for repeated confluence scans: per direction one recent
\* pattern on three timeframes, and for the bullish side two older hourly
\* ones, whose turn as the latest moves the mean entry by less than one
\* percent and by more
DedupPatterns ==
    <<ConfluentBullish("1h", 10, 90, 3), ConfluentBullish("1h", 50, 104, 3),
      ConfluentBullish("1m", 100, 102, 1), ConfluentBullish("1h", 100, 105, 5),
      ConfluentBullish("4h", 100, 110, 7), ConfluentBearish("1m", 100, 98, 1),
      ConfluentBearish("1h", 100, 95, 5), ConfluentBearish("4h", 100, 91, 7)>>

InitDedup ==
    /\ IdleParams
    /\ IdleDetect
    /\ IdleEngine
    /\ db_patterns = SaveAll(DedupPatterns, <<>>, 1..Len(DedupPatterns), 1)
    /\ clock = LOOKBACK_HOURS * 60
    /\ called = [op |-> "none"]
    /\ db_signals = <<>>

NextDedup ==
    \/ \E id \in 1..Len(db_patterns) :
           InvalidatePattern(id, clock) /\ UNCHANGED otherThanStore
    \/ \E failing \in SUBSET {"BTC/USDT"}, symbols \in ScanSymbolLists :
           ScanAllSymbolsForConfluence(failing, symbols) /\ UNCHANGED otherThanStore

SpecDedup == InitDedup /\ [][NextDedup]_vars

-----------------------------------------------------------------------------
(* Properties of the stored patterns, checked under SpecValidity *)

\* the age limit of a pattern, in minutes of its own timeframe
MaxAgeMinutes(pattern) ==
    get_parameters(overrides, pattern.symbol, pattern.timeframe).value.fvg.max_age_candles
        * get_timeframe_minutes(pattern.timeframe)

\* C11: a valid pattern whose gap the price has not filled is reported invalid
\* exactly when more than max_age_candles candles of its own timeframe have
\* elapsed since its start.
C11_AgeInOwnTimeframe ==
    (/\ called.op = "is_pattern_valid"
     /\ called.out.err = "none"
     /\ called.pattern.is_valid
     /\ _validate_pattern_specific(called.pattern, called.current_price)) =>
        (~called.out.value <=>
            called.current_timestamp - called.pattern.start_timestamp
                > MaxAgeMinutes(called.pattern))

\* C12: no operation turns the is_valid flag of a stored row from false to
\* true, and is_pattern_valid returns false for a row whose flag is false,
\* whatever the price and the time.
C12_InvalidIsTerminal ==
    [][/\ \A k \in 1..Len(db_patterns) :
             ~db_patterns[k].is_valid =>
                 /\ k <= Len(db_patterns')
                 /\ db_patterns'[k].id = db_patterns[k].id
                 /\ ~db_patterns'[k].is_valid
       /\ (called'.op = "is_pattern_valid" /\ ~called'.pattern.is_valid) =>
              (called'.out.err = "none" /\ ~called'.out.value)]_vars

\* a check of an invalidated row at a price that leaves its gap open, within
\* its age limit, answered false
C12_InvalidRowChecked ==
    /\ called.op = "is_pattern_valid"
    /\ ~called.pattern.is_valid
    /\ _validate_pattern_specific(called.pattern, called.current_price)
    /\ called.current_timestamp - called.pattern.start_timestamp
           <= FVG_MAX_AGE_CANDLES
    /\ called.out.err = "none"
    /\ ~called.out.value

-----------------------------------------------------------------------------
(* Properties of the confluence analysis *)

\* the rows of the table that are valid, of this symbol, direction and
\* timeframe, and started within the lookback window before the clock
Qualifying(symbol, direction, timeframe) ==
    {k \in 1..Len(db_patterns) :
        /\ db_patterns[k].is_valid
        /\ db_patterns[k].symbol = symbol
        /\ db_patterns[k].pattern_type = "fvg"
        /\ db_patterns[k].direction = direction
        /\ db_patterns[k].timeframe = timeframe
        /\ db_patterns[k].start_timestamp >= clock - LOOKBACK_HOURS * 60}

\* the analyzed timeframes that have a qualifying row
ConfluentTimeframes(symbol, direction) ==
    {called.timeframes[j] : j \in {m \in 1..Len(called.timeframes) :
                                      Qualifying(symbol, direction, called.timeframes[m]) # {}}}

Analyzed == called.op = "analyze_confluence"

SignalsOf(side) ==
    {j \in 1..Len(called.out.value) : called.out.value[j].direction = side}

Side(direction) == IF direction = "bullish" THEN "long" ELSE "short"

LatestQualifying(symbol, direction, timeframe) ==
    CHOOSE k \in Qualifying(symbol, direction, timeframe) :
        \A m \in Qualifying(symbol, direction, timeframe) :
            db_patterns[m].start_timestamp <= db_patterns[k].start_timestamp

RECURSIVE SumEntries(_, _, _)
SumEntries(symbol, direction, timeframes) ==
    IF timeframes = {} THEN Zero
    ELSE LET tf == CHOOSE t \in timeframes : TRUE
         IN  Add(db_patterns[LatestQualifying(symbol, direction, tf)].entry_price,
                 SumEntries(symbol, direction, timeframes \ {tf}))

MeanEntry(symbol, direction) ==
    Div(SumEntries(symbol, direction, ConfluentTimeframes(symbol, direction)),
        Int2R(Cardinality(ConfluentTimeframes(symbol, direction))))

\* C14: a signal counts the confluent timeframes of its direction and enters
\* at the mean of the entry prices of the latest qualifying pattern of each
C14_CountAndMeanEntry ==
    Analyzed =>
        \A direction \in {"bullish", "bearish"} :
            \A j \in SignalsOf(Side(direction)) :
                /\ called.out.value[j].confluence_count
                     = Cardinality(ConfluentTimeframes(called.symbol, direction))
                /\ called.out.value[j].entry_price = MeanEntry(called.symbol, direction)

\* a long signal over three timeframes, one of which had two qualifying
\* bullish patterns
C14_SignalWithTwoOnOneTimeframe ==
    /\ Analyzed
    /\ SignalsOf("long") # {}
    /\ Cardinality(ConfluentTimeframes(called.symbol, "bullish")) = 3
    /\ Cardinality(Qualifying(called.symbol, "bullish", "1h")) = 2

-----------------------------------------------------------------------------
(* Properties of resolution against the mutations of the store *)

Mutations == {"set_symbol_parameters", "set_timeframe_parameters",
              "remove_symbol_parameters"}

\* C16: the resolution that directly follows a set or remove operation gives
\* every field the value the store holds for it at that moment, and after
\* remove_symbol_parameters(symbol) without a timeframe the resolution of
\* (symbol, tf) has the outcome of the resolution of (no symbol, tf)
C16_MutationVisibleToNextResolve ==
    [][/\ (/\ ret.op \in Mutations
           /\ ret'.op = "get_parameters"
           /\ ret'.out.err = "none") =>
              \A group \in {"risk", "fvg"} :
                  \A field \in DOMAIN get_default_parameters[group] :
                      ret'.out.value[group][field] =
                          ByPrecedence(overrides, ret'.symbol, ret'.timeframe, group, field)
       /\ (/\ ret.op = "remove_symbol_parameters"
           /\ ret.timeframe = NONE
           /\ ret'.op = "get_parameters"
           /\ ret'.symbol = ret.symbol) =>
              ret'.out = get_parameters(overrides, NONE, ret'.timeframe)]_vars

\* a resolution for a symbol whose overrides were removed, under a store that
\* still holds the timeframe-level document: it returns that document's values
C16_ResolvedAfterRemoval ==
    /\ ret.op = "get_parameters"
    /\ ret.symbol = "BTC/USDT"
    /\ ret.timeframe = "1m"
    /\ "symbols" \in DOMAIN overrides
    /\ DOMAIN overrides.symbols = {}
    /\ HasTfLevel(overrides, "1m")
    /\ overrides.timeframes["1m"] = DocTf
    /\ ret.out.err = "none"
    /\ ret.out.value.fvg.min_gap_percent = R(1, 5)

\* C17: load_overrides directly after save_overrides gives a store under
\* which every pair an override applied to resolves as it did before the save
C17_SaveLoadRoundTrip ==
    [][(ret.op = "save_overrides" /\ ret'.op = "load_overrides") =>
          \A s \in QuerySymbols, tf \in QueryTimeframes :
              ~NoOverrideApplies(overrides, s, tf) =>
                  get_parameters(overrides', s, tf) = get_parameters(overrides, s, tf)]_vars

-----------------------------------------------------------------------------
(* Properties of the batch scans, checked under SpecScan *)

ScannedSymbols == IF called.symbols = <<>> THEN SYMBOLS ELSE called.symbols
ScannedTimeframes == IF called.timeframes = <<>> THEN TIMEFRAMES ELSE called.timeframes

\* what detect_patterns finds for a pair whose database read succeeds
PatternsOfPair(symbol, timeframe) ==
    IF Len(ScanCandles[symbol]) < 3 THEN <<>>
    ELSE IF detect(overrides, ScanCandles[symbol], symbol, timeframe).err # "none" THEN <<>>
    ELSE detect(overrides, ScanCandles[symbol], symbol, timeframe).value

OfTimeframe(found, timeframe) ==
    LET On(p) == p.timeframe = timeframe
    IN  SelectSeq(found, On)

\* C18: a batch scan returns without raising whatever pairs or symbols fail;
\* it reaches every pair (every symbol) of the batch in order, and its result
\* holds for every symbol what the pairs that did not fail produced
C18_BatchIsolation ==
    /\ called.op = "scan_all_symbols" =>
          /\ called.err = "none"
          /\ Len(called.visited) = Len(ScannedSymbols) * Len(ScannedTimeframes)
          /\ \A a \in 1..Len(ScannedSymbols), b \in 1..Len(ScannedTimeframes) :
                called.visited[(a - 1) * Len(ScannedTimeframes) + b]
                    = <<ScannedSymbols[a], ScannedTimeframes[b]>>
          /\ DOMAIN called.results = {ScannedSymbols[a] : a \in 1..Len(ScannedSymbols)}
          /\ \A a \in 1..Len(ScannedSymbols), b \in 1..Len(ScannedTimeframes) :
                OfTimeframe(called.results[ScannedSymbols[a]], ScannedTimeframes[b])
                    = IF <<ScannedSymbols[a], ScannedTimeframes[b]>> \in called.failing
                      THEN <<>>
                      ELSE PatternsOfPair(ScannedSymbols[a], ScannedTimeframes[b])
    /\ called.op = "scan_all_symbols_for_confluence" =>
          /\ called.err = "none"
          /\ called.visited = ScannedSymbols
          /\ DOMAIN called.results
                = {ScannedSymbols[a] : a \in 1..Len(ScannedSymbols)} \ called.failing
          /\ \A symbol \in DOMAIN called.results :
                called.results[symbol]
                    = analyze_confluence(MIN_TIMEFRAME_CONFLUENCE, db_patterns, clock,
                                         symbol, TIMEFRAMES, "fvg", LOOKBACK_HOURS).value

\* a pattern scan whose first pair failed and whose later pairs, of the same
\* symbol and of the next one, produced their patterns
C18_FirstPairFailedRestScanned ==
    /\ called.op = "scan_all_symbols"
    /\ called.symbols = <<"ETH/USDT", "BTC/USDT">>
    /\ called.timeframes = <<"1m", "1h", "4h">>
    /\ called.failing = {<<"ETH/USDT", "1m">>}
    /\ Len(called.results["ETH/USDT"]) = 2
    /\ Len(called.results["BTC/USDT"]) = 3
    /\ Len(db_patterns) = 5

-----------------------------------------------------------------------------
(* Properties of the exits and the ledger, checked under SpecBacktest *)

\* the candle a closed trade was closed on
ExitCandle(trade) == Iloc(candles, trade.exit_time)

\* C19: a closed trade opened from a bullish pattern left by stop_loss only on
\* a candle whose low reached its stop and by take_profit only on a candle
\* whose high reached its target while its low did not reach the stop; a
\* trade opened from a bearish pattern, the mirror; the exit price is the level
C19_ExitRule ==
    \A k \in 1..Len(trades) :
        LET trade == trades[k]
            candle == ExitCandle(trade)
            stopped == IF trade.direction = "bullish"
                       THEN Le(candle.low, trade.stop_loss)
                       ELSE Ge(candle.high, trade.stop_loss)
            reached == IF trade.direction = "bullish"
                       THEN Ge(candle.high, trade.take_profit)
                       ELSE Le(candle.low, trade.take_profit)
        IN  /\ trade.exit_reason = "stop_loss" =>
                  stopped /\ trade.exit_price = trade.stop_loss
            /\ trade.exit_reason = "take_profit" =>
                  ~stopped /\ reached /\ trade.exit_price = trade.take_profit

\* C20: the pnl of a closed trade is (exit - entry) * size / entry when it was
\* opened from a bullish pattern and (entry - exit) * size / entry when it
\* was opened from a bearish one
C20_RealizedPnl ==
    \A k \in 1..Len(trades) :
        LET trade == trades[k]
        IN  trade.pnl =
                IF trade.direction = "bullish"
                THEN Div(Mul(Sub(trade.exit_price, trade.entry_price),
                             trade.position_size), trade.entry_price)
                ELSE Div(Mul(Sub(trade.entry_price, trade.exit_price),
                             trade.position_size), trade.entry_price)

-----------------------------------------------------------------------------
(* Properties of the trade levels of a detected pattern, under SpecDetect *)

Detected == pc = "detected" /\ patterns.err = "none"

\* the ATR at the index of a pattern of the frame
AtrOf(p) == calculate_atr(df, ATR_PERIOD, p.start_timestamp)

\* C21: a pattern found at an index with fewer than ATR_PERIOD candles up to
\* it has a finite stop at 2 percent from its entry price, below for bullish
\* and above for bearish
C21_FallbackStop ==
    Detected =>
        \A k \in 1..Len(patterns.value) :
            LET p == patterns.value[k]
            IN  p.start_timestamp < ATR_PERIOD - 1 =>
                    /\ IsFinite(p.stop_loss)
                    /\ p.stop_loss = Mul(p.entry_price,
                                         IF p.direction = "bullish" THEN R(98, 100)
                                         ELSE R(102, 100))

\* C22: a pattern found at an index that has an ATR has its stop at the gap
\* edge less (bullish) or plus (bearish) ATR times the resolved multiplier,
\* and its target at the entry plus (minus) the entry-to-stop distance times
\* the resolved risk-reward ratio
C22_StopAtGapEdge ==
    Detected =>
        \A k \in 1..Len(patterns.value) :
            LET p == patterns.value[k]
                offset == Mul(AtrOf(p), Resolved.risk.stop_loss_atr_multiplier)
                reward == Mul(AbsR(Sub(p.entry_price, p.stop_loss)),
                              Resolved.risk.take_profit_rr_ratio)
            IN  p.start_timestamp >= ATR_PERIOD - 1 =>
                    IF p.direction = "bullish"
                    THEN /\ p.stop_loss = Sub(p.gap_bottom, offset)
                         /\ p.take_profit = Add(p.entry_price, reward)
                    ELSE /\ p.stop_loss = Add(p.gap_top, offset)
                         /\ p.take_profit = Sub(p.entry_price, reward)

\* a bearish pattern found with an ATR under an override of the multiplier
\* and of the ratio: its stop is above the gap, farther than the entry
C22_BearishWithAtrUnderOverride ==
    /\ Detected
    /\ Len(df) >= 3
    /\ Resolved.risk.stop_loss_atr_multiplier = Int2R(2)
    /\ Resolved.risk.take_profit_rr_ratio = Int2R(3)
    /\ \E k \in 1..Len(patterns.value) :
           /\ patterns.value[k].direction = "bearish"
           /\ patterns.value[k].start_timestamp >= ATR_PERIOD - 1
           /\ IsFinite(AtrOf(patterns.value[k]))
           /\ Gt(patterns.value[k].stop_loss, patterns.value[k].gap_top)

\* C30: detect returns at most one pattern for an index, and returns its
\* patterns in ascending order of the index of their third candle
C30_OnePerIndexAscending ==
    Detected =>
        /\ \A j \in 2..(Len(df) - 1) :
               Cardinality(Emitted("bullish", j) \cup Emitted("bearish", j)) <= 1
        /\ \A k \in 1..Len(patterns.value), m \in 1..Len(patterns.value) :
               k < m => patterns.value[k].start_timestamp
                            < patterns.value[m].start_timestamp

\* a detect call that returned patterns of two different indexes
C30_TwoIndexesDetected ==
    /\ Detected
    /\ Len(patterns.value) >= 2
    /\ patterns.value[1].start_timestamp # patterns.value[2].start_timestamp

-----------------------------------------------------------------------------
(* Properties of position sizing, checked under SpecSizing *)

\* C23: a trade is entered with the smaller of the risk budget (capital times
\* max_risk_percent / 100) over the entry-to-stop distance and capital times
\* position_size_percent / 100, and with size zero when that distance is
\* zero; a trade of zero distance closes with pnl zero and leaves the capital
C23_PositionSize ==
    [][/\ (active_trades = <<>> /\ active_trades' # <<>>) =>
              LET trade == active_trades'[1]
                  distance == AbsR(Sub(trade.entry_price, trade.stop_loss))
                  budget == Div(Mul(capital, MAX_RISK_PERCENT), Int2R(100))
                  cap == Div(Mul(capital, POSITION_SIZE_PERCENT), Int2R(100))
              IN  trade.position_size =
                      IF distance = Zero THEN Zero
                      ELSE IF Lt(Div(budget, distance), cap) THEN Div(budget, distance)
                      ELSE cap
       /\ (Len(trades') = Len(trades) + 1
           /\ trades'[Len(trades')].entry_price = trades'[Len(trades')].stop_loss) =>
              /\ trades'[Len(trades')].position_size = Zero
              /\ trades'[Len(trades')].pnl = Zero
              /\ capital' = capital]_vars

\* two closed trades: one of zero distance, and one whose size was the cap
C23_ZeroDistanceAndCapped ==
    /\ Len(trades) = 2
    /\ trades[1].entry_price = trades[1].stop_loss
    /\ trades[1].position_size = Zero
    /\ trades[2].stop_loss = R(399, 4)
    /\ trades[2].position_size
           = Div(Mul(Sub(capital, trades[2].pnl), POSITION_SIZE_PERCENT), Int2R(100))
    /\ active_trades = <<>>

-----------------------------------------------------------------------------
(* Properties of the primary timeframe and of the levels of a signal *)

\* the place of a timeframe in the canonical order
Rank(timeframe) ==
    CHOOSE k \in 1..Len(timeframe_order) : timeframe_order[k] = timeframe

\* C24: the primary timeframe of a signal is the confluent timeframe that is
\* coarsest in the canonical order, whatever the order of the analyzed list,
\* and the distances of the signal's stop and target from its entry are those
\* of the latest qualifying pattern of that timeframe
C24_PrimaryIsCoarsest ==
    Analyzed =>
        \A direction \in {"bullish", "bearish"} :
            \A j \in SignalsOf(Side(direction)) :
                LET signal == called.out.value[j]
                    confluent == ConfluentTimeframes(called.symbol, direction)
                IN  /\ signal.primary_timeframe \in confluent
                    /\ \A tf \in confluent : Rank(tf) <= Rank(signal.primary_timeframe)
                    /\ LET primary_pattern ==
                               db_patterns[LatestQualifying(called.symbol, direction,
                                                            signal.primary_timeframe)]
                       IN  /\ AbsR(Sub(signal.entry_price, signal.stop_loss))
                                = AbsR(Sub(primary_pattern.entry_price,
                                           primary_pattern.stop_loss))
                           /\ AbsR(Sub(signal.take_profit, signal.entry_price))
                                = AbsR(Sub(primary_pattern.take_profit,
                                           primary_pattern.entry_price))

\* an analysis of the list that has the coarsest timeframe first and the
\* finest in the middle, which returned a short signal on the coarsest
C24_CoarsestPassedFirst ==
    /\ Analyzed
    /\ called.timeframes = <<"4h", "1m", "1h">>
    /\ SignalsOf("short") # {}
    /\ \A j \in SignalsOf("short") :
           /\ called.out.value[j].primary_timeframe = "4h"
           /\ called.out.value[j].confluence_count = 3

\* C25: every analysis in which a direction reaches the threshold returns a
\* signal of that direction whose stop and target are the averaged entry
\* moved by the primary pattern's distances to its stop and to its target
\* (down and up for a long, up and down for a short), with the quotient of
\* the signal's own target distance by its own stop distance as its ratio
C25_LevelsFromPrimary ==
    Analyzed =>
        \A direction \in {"bullish", "bearish"} :
            Cardinality(ConfluentTimeframes(called.symbol, direction))
                    >= MIN_TIMEFRAME_CONFLUENCE
                => /\ called.out.err = "none"
                   /\ \E j \in SignalsOf(Side(direction)) :
                         LET signal == called.out.value[j]
                             primary_pattern ==
                                 db_patterns[LatestQualifying(called.symbol, direction,
                                                              signal.primary_timeframe)]
                             risk == AbsR(Sub(primary_pattern.entry_price,
                                              primary_pattern.stop_loss))
                             reward == AbsR(Sub(primary_pattern.take_profit,
                                                primary_pattern.entry_price))
                         IN  /\ signal.stop_loss
                                  = IF direction = "bullish"
                                    THEN Sub(signal.entry_price, risk)
                                    ELSE Add(signal.entry_price, risk)
                             /\ signal.take_profit
                                  = IF direction = "bullish"
                                    THEN Add(signal.entry_price, reward)
                                    ELSE Sub(signal.entry_price, reward)
                             /\ signal.risk_reward_ratio
                                  = Div(AbsR(Sub(signal.take_profit, signal.entry_price)),
                                        AbsR(Sub(signal.entry_price, signal.stop_loss)))

-----------------------------------------------------------------------------
(* Properties of the signals stored by repeated confluence scans *)

\* the active rows of a signals table with the symbol and direction of a
\* signal and an entry less than one percent of the signal's entry away
Near(table, signal) ==
    {k \in 1..Len(table) :
        /\ table[k].status = "active"
        /\ table[k].symbol = signal.symbol
        /\ table[k].direction = signal.direction
        /\ Lt(Div(AbsR(Sub(table[k].entry_price, signal.entry_price)), signal.entry_price),
              R(1, 100))}

\* the rows a step has appended that hold this signal
SavedAs(signal) ==
    {k \in (Len(db_signals) + 1)..Len(db_signals') :
        /\ db_signals'[k].symbol = signal.symbol
        /\ db_signals'[k].direction = signal.direction
        /\ db_signals'[k].entry_price = signal.entry_price}

AllValid == \A k \in 1..Len(db_patterns) : db_patterns[k].is_valid

-----------------------------------------------------------------------------
(* Properties of the accounts of a backtest run, under SpecBacktest *)

\* C27: in every state of a run the capital is the initial capital plus the
\* pnl of the trades of the ledger; every trade of the ledger is closed, with
\* an exit reason of stop_loss or take_profit, the exit price of that level,
\* the time of a candle and its pnl at that price; and a trade that is open,
\* the one left when the candles have run out included, has no exit and is
\* not in the ledger
C27_CapitalIsLedgerSum ==
    /\ capital = Add(initial_capital, SumPnl(trades, 1..Len(trades), Len(trades)))
    /\ \A k \in 1..Len(trades) :
           /\ trades[k].exit_reason \in {"stop_loss", "take_profit"}
           /\ trades[k].exit_price = IF trades[k].exit_reason = "stop_loss"
                                     THEN trades[k].stop_loss
                                     ELSE trades[k].take_profit
           /\ trades[k].exit_time \in 0..(Len(candles) - 1)
           /\ trades[k].pnl = TradePnl(trades[k], trades[k].exit_price)
    /\ \A a \in 1..Len(active_trades) :
           /\ active_trades[a].exit_reason = NONE
           /\ \A k \in 1..Len(trades) :
                  trades[k].entry_time # active_trades[a].entry_time

\* a finished run with a trade of non-zero pnl in the ledger and another
\* trade still open
C27_ReturnedWithOpenTrade ==
    /\ pc = "returned"
    /\ result.err = "none"
    /\ Len(trades) > 0
    /\ trades[1].pnl # Zero
    /\ Len(active_trades) = 1

\* C29: an iteration of the run checks the entry first and the exits next
\* and records one equity point last: a trade opened on a candle is in the
\* ledger, closed on that candle, or open with no exit on that candle; an
\* iteration that began with a trade open or that closed a trade opens none;
\* and the one point added to the equity curve is the capital after the
\* exits plus the unrealized pnl of the trades then open
C29_EntryThenExitThenEquity ==
    [][(pc = "loop" /\ i' = i + 1) =>
          LET current_candle == Iloc(candles, i)
              opened == {a \in 1..Len(active_trades') :
                            active_trades'[a].entry_time = current_candle.timestamp}
              opened_and_closed ==
                  {k \in (Len(trades) + 1)..Len(trades') :
                      trades'[k].entry_time = current_candle.timestamp}
          IN  /\ \A a \in 1..Len(active_trades') :
                     _check_exit(active_trades'[a], current_candle).reason = NONE
              /\ \A k \in (Len(trades) + 1)..Len(trades') :
                     /\ trades'[k].exit_time = current_candle.timestamp
                     /\ trades'[k].entry_time <= trades'[k].exit_time
              /\ Len(active_trades) > 0 => opened = {} /\ opened_and_closed = {}
              /\ Len(trades') > Len(trades) => active_trades' = <<>>
              /\ Len(equity_curve') = Len(equity_curve) + 1
              /\ SubSeq(equity_curve', 1, Len(equity_curve)) = equity_curve
              /\ equity_curve'[Len(equity_curve')]
                   = [timestamp |-> current_candle.timestamp,
                      equity |-> Add(capital', Unrealized(active_trades', 1,
                                                          current_candle.close))]]_vars

\* a ledger with a trade opened and closed on one candle, followed by a
\* trade opened on the next candle at the earliest
C29_OpenedAndClosedInOneStep ==
    /\ pc = "loop"
    /\ Len(trades) >= 2
    /\ trades[1].entry_time = trades[1].exit_time
    /\ trades[2].entry_time > trades[1].exit_time

\* the engine of a fresh instance after the iterations of a run over the
\* series up to position k
RECURSIVE FreshRun(_, _)
FreshRun(series, k) ==
    IF k <= WINDOW_SIZE
    THEN [capital |-> initial_capital, trades |-> <<>>, active |-> <<>>,
          equity_curve |-> <<>>]
    ELSE CHOOSE now \in
           {LET current_candle == Iloc(series, k - 1)
                found == detect(overrides, SubSeq(series, k - WINDOW_SIZE, k),
                                BT_SYMBOL, BT_TIMEFRAME).value
                entered == IF Len(found) > 0
                              /\ ShouldEnter(before.active, found[Len(found)],
                                             current_candle)
                           THEN Append(before.active,
                                       _enter_trade(before.capital, found[Len(found)],
                                                    found[Len(found)].entry_price,
                                                    current_candle.timestamp))
                           ELSE before.active
                after == ExitLoop(entered, 1, current_candle, before.capital,
                                  before.trades, <<>>)
            IN  [capital |-> after.capital, trades |-> after.trades,
                 active |-> after.active,
                 equity_curve |->
                     Append(before.equity_curve,
                            [timestamp |-> current_candle.timestamp,
                             equity |-> Add(after.capital,
                                            Unrealized(after.active, 1,
                                                       current_candle.close))])] :
               before \in {FreshRun(series, k - 1)}} : TRUE

\* C28: the start of a run sets the capital to the initial capital and
\* empties the ledger and the equity curve, whatever the last run left, and
\* in every state of every run of the instance, after a run with trades or
\* after a run with too few candles, the capital, the ledger, the open
\* trades and the equity curve are those of a fresh instance run over the
\* same candles up to the same position
C28_RunsStartFresh ==
    /\ [][pc' = "reset" =>
             /\ capital' = initial_capital
             /\ trades' = <<>>
             /\ equity_curve' = <<>>]_vars
    /\ []((pc \in {"loop", "returned"} /\ result.err = "none") =>
             [capital |-> capital, trades |-> trades, active |-> active_trades,
              equity_curve |-> equity_curve] = FreshRun(candles, i))

\* the start of a run on an instance whose last run returned a report with
\* a loss: the capital is the initial capital again and the ledger is empty
C28_ResetAfterLosingRun ==
    /\ pc = "reset"
    /\ result.err = "none"
    /\ ~result.none
    /\ Lt(result.value.final_capital, initial_capital)
    /\ capital = initial_capital
    /\ trades = <<>>

====
